---- MODULE Spec2Model ----
(***************************************************************************)
(* A model of the arbys arbitrage bot: the trade validator and the two-leg *)
(* trade executor (src/src/services/trade.ts) and the monitor loop of the  *)
(* bot (src/src/index.ts) with DexService (src/src/services/dex.ts); the   *)
(* detectors, the venue adapters and their caches of missing pools, the    *)
(* liquidity filter and the trade sizer, the loops of ArbitrageService and *)
(* PriceService, and the pool cache of getPriceQuotes.                     *)
(*                                                                         *)
(* Amounts are bigint in the program and never overflow there.  TLC's      *)
(* integers are 32 bits wide, so the model counts wei in a coarser unit    *)
(* (WeiPerGwei units to the gwei instead of 10^9) and takes token amounts  *)
(* of a few million base units; every product below stays under 2^31.     *)
(***************************************************************************)
EXTENDS Integers, Sequences, FiniteSets, TLC

(* ------------------------------ bounds -------------------------------- *)

\* Model units of wei in one gwei (10^9 in the program).
WeiPerGwei == 10

\* The trial amount of the opportunities handed to the validator.
BaseAmount == 2090000

(* ---------------------- optional fields (x?: T) ----------------------- *)

None == {}

Some(v) == {v}

Get(o) == CHOOSE v \in o : TRUE

\* (x || 0n) of a bigint | undefined
OrZero(o) == IF o = None THEN 0 ELSE Get(o)

(* ------------------------- venues and tokens -------------------------- *)

\* A venue name is the sequence of its words: "Uniswap V2" is <<"Uniswap","V2">>.
\* The configured venues: the two of the repository's configuration and, as
\* further configuration inputs, two venues with one-word names and one venue
\* without a version tag (the older DEXProtocol has none).
SUPPORTED_DEXES ==
  { [name |-> <<"Uniswap", "V2">>, version |-> "v2", router |-> "0x7a25"],
    [name |-> <<"Uniswap", "V3">>, version |-> "v3", router |-> "0xE592"],
    [name |-> <<"Sushiswap">>,     version |-> "v2", router |-> "0xd9e1"],
    [name |-> <<"Pancakeswap">>,   version |-> "v3", router |-> "0x1b81"],
    [name |-> <<"Curve">>,         version |-> "",   router |-> "0x99a5"] }

\* quote.dexName.split(" ")[0]
SplitFirst(dexName) == SubSeq(dexName, 1, 1)

\* DexService's handler map: one handler per v2/v3 venue, keyed by dex.name.
getHandlers == { d.name : d \in { e \in SUPPORTED_DEXES : e.version \in {"v2", "v3"} } }

\* DexService.getDexByName(name): the configured venue of that name, if any.
getDexByName(name) == { d \in SUPPORTED_DEXES : d.name = name }

\* The gas estimate every adapter puts on a quote.
QuoteGas == 300000

PriceQuote(dexName, inputAmount, outputAmount, path) ==
  [dexName |-> dexName, inputAmount |-> inputAmount, outputAmount |-> outputAmount,
   path |-> path, estimatedGas |-> QuoteGas]

(* ----------------------------- inputs --------------------------------- *)

\* Messages of the errors the external calls throw ("Unknown error" stands
\* for a thrown value that is no Error).
ThrownMessages == {"Unknown error", "execution reverted"}

\* provider.getFeeData(): throws, or reports a gas price (null, or wei).
FeeDataOutcomes ==
  { [throws |-> TRUE, gasPrice |-> None] }
  \cup { [throws |-> FALSE, gasPrice |-> g] :
           g \in { None, Some(0), Some(1), Some(50 * WeiPerGwei),
                   Some(50 * WeiPerGwei + 1), Some(80 * WeiPerGwei) } }

\* The recorded outputs of the opportunities' legs.
BuyOut == 2000000

SellOut == 2700000

\* The opportunities handed to validateArbitrage / executeTrade.
Opportunities ==
  { [tokenA |-> "A", tokenB |-> "B",
     buyQuote |-> PriceQuote(bn, BaseAmount, bo, <<"A", "B">>),
     sellQuote |-> PriceQuote(sn, BaseAmount, SellOut, <<"A", "B">>)] :
       bn \in { <<"Sushiswap">>, <<"Curve">>, <<"Uniswap", "V2">> },
       sn \in { <<"Pancakeswap", "(0.30%)">>, <<"Uniswap", "V3", "(0.30%)">> },
       bo \in { BaseAmount, BuyOut } }

\* Outputs an adapter may report when a leg is quoted again: the recorded
\* output, 1% and 3% below it, and values around the break-even point of
\* the profit check.
RefreshedOutputs(recorded) ==
  { recorded, recorded - recorded \div 100, recorded - 3 * (recorded \div 100),
    recorded - 10000, recorded + 10000 }

\* What handler.getQuotes(tokenA, tokenB, amount) may return: it throws, or
\* returns the forward and reverse quotes that succeeded, forward first.
AdapterResults(opp, dexName, amount, recorded) ==
  LET fwd == { PriceQuote(dexName, amount, o, <<opp.tokenA, opp.tokenB>>) :
                 o \in RefreshedOutputs(recorded) }
      rev == PriceQuote(dexName, amount, recorded, <<opp.tokenB, opp.tokenA>>)
  IN  { [throws |-> TRUE, quotes |-> <<>>] }
      \cup { [throws |-> FALSE, quotes |-> qs] :
               qs \in { <<>>, <<rev>> } \cup { <<f>> : f \in fwd }
                      \cup { <<f, rev>> : f \in { g \in fwd : g.outputAmount = recorded } } }

(* ------------------- TradeValidation and TradeResult ------------------ *)

\* A message of the program: its fixed text, the message of the error it
\* wraps, and the numbers it prints.
Message(text, detail, n1, n2) == [text |-> text, detail |-> detail, n1 |-> n1, n2 |-> n2]

TradeValidation(isValid, reason, updatedBuyQuote, updatedSellQuote, gasCost, netProfit) ==
  [isValid |-> isValid, reason |-> reason,
   updatedBuyQuote |-> updatedBuyQuote, updatedSellQuote |-> updatedSellQuote,
   estimatedGasCost |-> gasCost, estimatedNetProfit |-> netProfit]

TradeResult(success, hash, error, gasUsed, gasPrice, totalCost, actualProfit) ==
  [success |-> success, transactionHash |-> hash, error |-> error,
   gasUsed |-> gasUsed, effectiveGasPrice |-> gasPrice,
   totalCost |-> totalCost, actualProfit |-> actualProfit]

NoValidation == TradeValidation(FALSE, None, None, None, None, None)

NoResult == TradeResult(FALSE, None, None, None, None, None, None)

(* -------------------------- validateArbitrage ------------------------- *)

\* ethers.parseUnits(maxGasGwei.toString(), "gwei") of the default ceiling
maxGasPrice == 50 * WeiPerGwei

maxSlippagePercent == 1

\* ethers.formatUnits(wei, "gwei"): the whole gwei and the fraction
formatUnits(wei) == <<wei \div WeiPerGwei, wei % WeiPerGwei>>

\* Mutant: the ceiling is not compared.
GasPriceRejected_NoCeiling(gasPrice) == gasPrice = None \/ Get(gasPrice) = 0

\* !gasPrice.gasPrice || gasPrice.gasPrice > this.maxGasPrice
GasPriceRejected(gasPrice) ==
  \/ gasPrice = None
  \/ Get(gasPrice) = 0
  \/ Get(gasPrice) > maxGasPrice

GasPriceTooHigh(gasPrice) ==
  LET shown == formatUnits(OrZero(gasPrice))
  IN  TradeValidation(FALSE, Some(Message("Gas price too high", "gwei", shown[1], shown[2])),
                      None, None, None, None)

ValidationError(msg) ==
  TradeValidation(FALSE, Some(Message("Validation error", msg, 0, 0)), None, None, None, None)

\* The amount each leg is quoted at again.
BuyRefreshAmount(opp) == opp.buyQuote.inputAmount

SellRefreshAmount(opp) == opp.buyQuote.outputAmount

\* !updatedBuyQuote?.[0] || !updatedSellQuote?.[0]
QuotesMissing(buyQuotes, sellQuotes) == buyQuotes = <<>> \/ sellQuotes = <<>>

FailedQuotes ==
  TradeValidation(FALSE, Some(Message("Failed to get updated quotes", "", 0, 0)),
                  None, None, None, None)

Abs(n) == IF n < 0 THEN 0 - n ELSE n

\* x.toFixed(2) of the percentage num / den * 100, in hundredths of a percent
\* (rounded half away from zero; den > 0).

toFixed2(num, den) ==
  LET p     == Abs(num) * 100
      whole == p \div den
      frac  == ((p % den) * 200 + den) \div (2 * den)
      h     == whole * 100 + frac
  IN  IF num < 0 THEN 0 - h ELSE h

\* Mutant: the operands of the difference are swapped.
SlippageExceeds_Swapped(recorded, refreshed) ==
  (refreshed - recorded) * 100 > maxSlippagePercent * recorded

\* (Number(recorded - refreshed) / Number(recorded)) * 100 > maxSlippagePercent
SlippageExceeds(recorded, refreshed) ==
  (recorded - refreshed) * 100 > maxSlippagePercent * recorded

SlippageTooHigh(opp, ub, us) ==
  TradeValidation(FALSE,
    Some(Message("Slippage too high", "Buy Sell",
                 toFixed2(opp.buyQuote.outputAmount - ub.outputAmount, opp.buyQuote.outputAmount),
                 toFixed2(opp.sellQuote.outputAmount - us.outputAmount, opp.sellQuote.outputAmount))),
    Some(ub), Some(us), None, None)

EstimatedGasCost(ub, us, gasPrice) == (ub.estimatedGas + us.estimatedGas) * OrZero(gasPrice)

\* Mutant: the refreshed buy output is subtracted instead of the buy input.
EstimatedNetProfit_BuyOutput(ub, us, gasPrice) ==
  us.outputAmount - ub.outputAmount - EstimatedGasCost(ub, us, gasPrice)

EstimatedNetProfit(ub, us, gasPrice) ==
  us.outputAmount - ub.inputAmount - EstimatedGasCost(ub, us, gasPrice)

\* Mutant: an unprofitable trade is rejected without a reason.
ProfitVerdict_NoReason(ub, us, gasPrice) ==
  LET net == EstimatedNetProfit(ub, us, gasPrice)
  IN  TradeValidation(net > 0, None, Some(ub), Some(us),
                      Some(EstimatedGasCost(ub, us, gasPrice)), Some(net))

\* return { isValid: estimatedNetProfit > 0n, reason: ... ? undefined : "Not profitable after gas", ... }
ProfitVerdict(ub, us, gasPrice) ==
  LET net == EstimatedNetProfit(ub, us, gasPrice)
  IN  TradeValidation(net > 0,
                      IF net > 0 THEN None ELSE Some(Message("Not profitable after gas", "", 0, 0)),
                      Some(ub), Some(us), Some(EstimatedGasCost(ub, us, gasPrice)), Some(net))

\* validateArbitrage from the point where both adapters have answered.
ValidateQuotes(opp, gasPrice, buyQuotes, sellQuotes) ==
  IF QuotesMissing(buyQuotes, sellQuotes) THEN FailedQuotes
  ELSE LET ub == buyQuotes[1]
           us == sellQuotes[1]
       IN  IF \/ SlippageExceeds(opp.buyQuote.outputAmount, ub.outputAmount)
              \/ SlippageExceeds(opp.sellQuote.outputAmount, us.outputAmount)
           THEN SlippageTooHigh(opp, ub, us)
           ELSE ProfitVerdict(ub, us, gasPrice)

(* ------------------------------- state -------------------------------- *)

VARIABLES
  pc,          \* where the running call stands: [at, leg]
  flow,        \* the entry point that is running: "none", "trade", "monitor"
  opp,         \* the opportunity of the running executeTrade
  gasPrice,    \* validateArbitrage's gasPrice.gasPrice
  validation,  \* the TradeValidation validateArbitrage returned in this flow
  buyTx,       \* executeTrade's buyTx
  sellTx,      \* executeTrade's sellTx
  result,      \* the TradeResult executeTrade returned
  exit,        \* the return statement executeTrade left by
  calls,       \* the external calls this flow has issued and their confirmations, in order
  prev,        \* exit and result of the executeTrade call before this one
  route,       \* the route the monitor loop hands to DexService.executeArbitrage
  updated,     \* validateArbitrage's updatedBuyQuote and updatedSellQuote lists
  det,         \* the detector call that ran: its inputs and what it returned
  adapters,    \* the venue adapters: their caches of missing pools and their last getQuotes call
  loops,       \* the scan and price-update loops: the isRunning flags and the start calls
  pools        \* the chain's block, the pool cache and the running getPriceQuotes pass

\* The state of the long-lived services, which the bot's calls above leave alone.
services == <<adapters, loops, pools>>

\* The state of the executor, the monitor and the detectors.
botVars ==
  <<pc, flow, opp, gasPrice, validation, buyTx, sellTx, result, exit, calls, prev, route, updated,
    det>>

vars ==
  <<pc, flow, opp, gasPrice, validation, buyTx, sellTx, result, exit, calls, prev, route, updated,
    det, adapters, loops, pools>>

At(at, leg) == [at |-> at, leg |-> leg]

Call(op, leg, target, token, amount) ==
  [op |-> op, leg |-> leg, target |-> target, token |-> token, amount |-> amount]

NoOpp == [tokenA |-> "", tokenB |-> "",
          buyQuote |-> PriceQuote(<<>>, 0, 0, <<>>), sellQuote |-> PriceQuote(<<>>, 0, 0, <<>>)]

NoPrev == [exit |-> "", result |-> NoResult]

NoQuotes == [buy |-> <<>>, sell |-> <<>>]

\* No detector has run.
NoDet == [by |-> "", quotes |-> <<>>, gasPrice |-> 0, found |-> None, opps |-> <<>>,
          dexPrice |-> 0, results |-> <<>>, failed |-> {}, threw |-> FALSE, valid |-> <<>>,
          args |-> <<>>, out |-> <<>>]

\* The venue adapters: UniswapV2Handler of src/src/services/handlers, the
\* UniswapV2Handler that keeps a cache (the copy in src/src/services/cex.ts),
\* and UniswapV3Handler.
Handlers == {"UniswapV2Handler", "CachingUniswapV2Handler", "UniswapV3Handler"}

\* No getQuotes call has run on an adapter.
NoCall == [handler |-> "", tokenA |-> 0, tokenB |-> 0, known |-> {}, probes |-> {},
           quoted |-> {}, quotes |-> {}, notFound |-> {}, threw |-> FALSE]

\* this.nonExistentPools = new Set() in every adapter; reported is the
\* history of the pools a getCode probe has found without code, everQuoted
\* that of the pools a quote was returned of.
NoAdapters == [nonExistentPools |-> [h \in Handlers |-> {}],
               reported |-> [h \in Handlers |-> {}],
               everQuoted |-> [h \in Handlers |-> {}],
               last |-> NoCall]


\* The services whose loops are modelled.
LoopServices == {"ArbitrageService", "PriceService"}

\* private isRunning: boolean = false, and no start call yet.
NoLoops == [isRunning |-> [s \in LoopServices |-> FALSE],
            starts |-> [s \in LoopServices |-> <<>>],
            main |-> [at |-> "cycle", wait |-> 0]]

\* The venues getPriceQuotes fetches pools of.
PoolVenues == 1..2

\* No getPriceQuotes pass is running.
NoPass == [at |-> [v \in PoolVenues |-> "idle"], currentBlock |-> [v \in PoolVenues |-> 0],
           info |-> [v \in PoolVenues |-> 0], hit |-> [v \in PoolVenues |-> None]]

\* private poolCache = new Map(), on a chain at block 1.
NoPools == [block |-> 1, poolCache |-> [v \in PoolVenues |-> None], pass |-> NoPass]

Init ==
  /\ pc = At("idle", 0)
  /\ flow = "none"
  /\ opp = NoOpp
  /\ gasPrice = None
  /\ validation = NoValidation
  /\ buyTx = NoResult
  /\ sellTx = NoResult
  /\ result = NoResult
  /\ exit = ""
  /\ calls = <<>>
  /\ prev = NoPrev
  /\ route = <<>>
  /\ updated = NoQuotes
  /\ det = NoDet
  /\ adapters = NoAdapters
  /\ loops = NoLoops
  /\ pools = NoPools

(* ----------------------------- executeTrade --------------------------- *)

\* A return statement of executeTrade.
Finish(res, ex) ==
  /\ result' = res
  /\ exit' = ex
  /\ pc' = At("returned", 0)

Failure(text, msg) == TradeResult(FALSE, None, Some(Message(text, msg, 0, 0)), None, None, None, None)

\* if (!validation.isValid) return { success: false, error: validation.reason }
Rejection(v) == TradeResult(FALSE, None, v.reason, None, None, None, None)

\* Mutant: the validation's verdict is ignored.
ValidationPassed_Always(v) == TRUE

\* if (!validation.isValid) return ...
ValidationPassed(v) == v.isValid

\* validateArbitrage returns v to executeTrade.
ValidationReturns(v) ==
  /\ validation' = v
  /\ IF ~ValidationPassed(v)
       THEN Finish(Rejection(v), "Rejected")
       ELSE pc' = At("allowance", 1) /\ UNCHANGED <<result, exit>>

executeTrade ==
  /\ pc.at = "idle"
  /\ \E o \in Opportunities : opp' = o
  /\ flow' = "trade"
  /\ pc' = At("getFeeData", 0)
  /\ UNCHANGED <<gasPrice, validation, buyTx, sellTx, result, exit, calls, prev, route, updated, det, services>>

GetFeeData ==
  /\ pc.at = "getFeeData"
  /\ calls' = Append(calls, Call("getFeeData", 0, <<>>, "", 0))
  /\ \E fd \in FeeDataOutcomes :
       IF fd.throws
         THEN /\ \E m \in ThrownMessages : ValidationReturns(ValidationError(m))
              /\ UNCHANGED gasPrice
         ELSE /\ gasPrice' = fd.gasPrice
              /\ IF GasPriceRejected(fd.gasPrice)
                   THEN ValidationReturns(GasPriceTooHigh(fd.gasPrice))
                   ELSE pc' = At("getQuotes", 0) /\ UNCHANGED <<validation, result, exit>>
  /\ UNCHANGED <<flow, opp, buyTx, sellTx, prev, route, updated, det, services>>

\* The names a venue's adapter puts on its quotes: dex.name, and for a
\* concentrated-liquidity venue dex.name with the fee tier of the pool, one
\* name per tier of dex.poolFees that has a pool (two tiers here).
AdapterQuoteNames(key) ==
  LET d == CHOOSE e \in SUPPORTED_DEXES : e.name = key
  IN  IF d.version = "v3" THEN { key \o <<"(0.05%)">>, key \o <<"(0.30%)">> } ELSE { key }

\* What getHandlers().get(key)?.getQuotes(tokenA, tokenB, amount) may yield.
RefreshResults(o, key, amount, recorded) ==
  IF key \in getHandlers
    THEN UNION { AdapterResults(o, n, amount, recorded) : n \in AdapterQuoteNames(key) }
    ELSE { [throws |-> FALSE, quotes |-> <<>>] }

RefreshCalls(o) ==
  LET bKey == SplitFirst(o.buyQuote.dexName)
      sKey == SplitFirst(o.sellQuote.dexName)
  IN  (IF bKey \in getHandlers
         THEN <<Call("getQuotes", 1, bKey, o.tokenA, BuyRefreshAmount(o))>> ELSE <<>>)
      \o (IF sKey \in getHandlers
            THEN <<Call("getQuotes", 2, sKey, o.tokenA, SellRefreshAmount(o))>> ELSE <<>>)

RefreshQuotes ==
  /\ pc.at = "getQuotes"
  /\ calls' = calls \o RefreshCalls(opp)
  /\ \E b \in RefreshResults(opp, SplitFirst(opp.buyQuote.dexName),
                             BuyRefreshAmount(opp), opp.buyQuote.outputAmount),
        s \in RefreshResults(opp, SplitFirst(opp.sellQuote.dexName),
                             SellRefreshAmount(opp), opp.sellQuote.outputAmount) :
       IF b.throws \/ s.throws
         THEN /\ \E m \in ThrownMessages : ValidationReturns(ValidationError(m))
              /\ UNCHANGED updated
         ELSE /\ updated' = [buy |-> b.quotes, sell |-> s.quotes]
              /\ ValidationReturns(ValidateQuotes(opp, gasPrice, b.quotes, s.quotes))
  /\ UNCHANGED <<flow, opp, gasPrice, buyTx, sellTx, prev, route, det, services>>

\* The quote, input token of a leg.
LegQuote(o, l) == IF l = 1 THEN o.buyQuote ELSE o.sellQuote

LegToken(o, l) == IF l = 1 THEN o.tokenA ELSE o.tokenB

\* tokenContract.allowance(owner, spender): throws, or the current allowance.
AllowanceOutcomes(amount) ==
  { [throws |-> TRUE, allowance |-> 0] }
  \cup { [throws |-> FALSE, allowance |-> a] : a \in { 0, amount - 1, amount } }

\* Mutant: the comparison of the allowance with the amount is turned around.
NeedsApproval_Greater(currentAllowance, amount) == currentAllowance > amount

\* if (currentAllowance < amount)
NeedsApproval(currentAllowance, amount) == currentAllowance < amount

\* ensureAllowance up to the allowance read (and executeTrade's catch).
AllowanceQuery ==
  /\ pc.at = "allowance"
  /\ LET q     == LegQuote(opp, pc.leg)
         query == Call("allowance", pc.leg, SplitFirst(q.dexName), LegToken(opp, pc.leg),
                       q.inputAmount)
     IN  \E out \in AllowanceOutcomes(q.inputAmount) :
           IF out.throws
             THEN /\ calls' = Append(calls, query)
                  /\ \E m \in ThrownMessages :
                       Finish(Failure("Execution error", m), "AllowanceFailed")
             ELSE /\ calls' = calls \o <<query, Call("allowanceRead", pc.leg, SplitFirst(q.dexName),
                                                     LegToken(opp, pc.leg), out.allowance)>>
                  /\ pc' = IF NeedsApproval(out.allowance, q.inputAmount)
                             THEN At("approve", pc.leg) ELSE At("swap", pc.leg)
                  /\ UNCHANGED <<result, exit>>
  /\ UNCHANGED <<flow, opp, gasPrice, validation, buyTx, sellTx, prev, route, updated, det, services>>

\* tokenContract.approve(spender, MaxUint256)
Approve ==
  /\ pc.at = "approve"
  /\ LET q == LegQuote(opp, pc.leg)
     IN  calls' = Append(calls, Call("approve", pc.leg, SplitFirst(q.dexName),
                                     LegToken(opp, pc.leg), q.inputAmount))
  /\ \/ \E m \in ThrownMessages : Finish(Failure("Execution error", m), "AllowanceFailed")
     \/ pc' = At("approveWait", pc.leg) /\ UNCHANGED <<result, exit>>
  /\ UNCHANGED <<flow, opp, gasPrice, validation, buyTx, sellTx, prev, route, updated, det, services>>

\* await tx.wait() of the approval
ApproveWait ==
  /\ pc.at = "approveWait"
  /\ \/ /\ \E m \in ThrownMessages : Finish(Failure("Execution error", m), "AllowanceFailed")
        /\ UNCHANGED calls
     \/ /\ calls' = Append(calls, Call("approveConfirmed", pc.leg, <<>>, LegToken(opp, pc.leg), 0))
        /\ pc' = At("swap", pc.leg)
        /\ UNCHANGED <<result, exit>>
  /\ UNCHANGED <<flow, opp, gasPrice, validation, buyTx, sellTx, prev, route, updated, det, services>>

\* Mutant: a failed leg is not returned.
LegSucceeded_Always(tx) == TRUE

\* if (!buyTx.success) return buyTx;   if (!sellTx.success) return sellTx;
LegSucceeded(tx) == tx.success

\* The result of two confirmed legs.
Aggregate(o, buy, sell) ==
  LET totalGasCost == OrZero(buy.gasUsed) * OrZero(buy.effectiveGasPrice)
                      + OrZero(sell.gasUsed) * OrZero(sell.effectiveGasPrice)
  IN  TradeResult(TRUE, sell.transactionHash, None,
                  Some(OrZero(buy.gasUsed) + OrZero(sell.gasUsed)),
                  sell.effectiveGasPrice, Some(totalGasCost),
                  Some(o.sellQuote.outputAmount - o.buyQuote.inputAmount - totalGasCost))

\* executeSwap returns tx for leg l, and executeTrade goes on from there.
LegReturns(l, tx) ==
  /\ IF l = 1 THEN buyTx' = tx /\ UNCHANGED sellTx ELSE sellTx' = tx /\ UNCHANGED buyTx
  /\ IF ~LegSucceeded(tx)
       THEN Finish(tx, IF l = 1 THEN "Leg1Failed" ELSE "Leg2Failed")
       ELSE IF l = 1
              THEN pc' = At("allowance", 2) /\ UNCHANGED <<result, exit>>
              ELSE Finish(Aggregate(opp, buyTx, tx), "Success")

\* Mutant: the buy leg's receipt is not awaited before executeTrade goes on.
PcAfterSubmit_NoWait(l) == IF l = 1 THEN At("allowance", 2) ELSE At("swapWait", l)

\* const receipt = await tx.wait(): executeSwap goes on only with the receipt.
PcAfterSubmit(l) == At("swapWait", l)

\* executeSwap up to the router call.
SwapSubmit ==
  /\ pc.at = "swap"
  /\ LET q   == LegQuote(opp, pc.leg)
         dex == getDexByName(SplitFirst(q.dexName))
     IN  IF dex = {}
           THEN LegReturns(pc.leg, Failure("Swap error", "DEX not found")) /\ UNCHANGED calls
           ELSE IF Get(dex).version \notin {"v2", "v3"}
             THEN /\ LegReturns(pc.leg, Failure("Swap error", "Unsupported DEX version"))
                  /\ UNCHANGED calls
             ELSE /\ calls' = Append(calls, Call("swapSubmit", pc.leg, <<Get(dex).router>>,
                                                 q.path[1], q.inputAmount))
                  /\ \/ \E m \in ThrownMessages : LegReturns(pc.leg, Failure("Swap error", m))
                     \/ /\ pc' = PcAfterSubmit(pc.leg)
                        /\ UNCHANGED <<buyTx, sellTx, result, exit>>
  /\ UNCHANGED <<flow, opp, gasPrice, validation, prev, route, updated, det, services>>

\* Gas used and effective gas price of a confirmed swap.
Receipts(l) ==
  { [hash |-> IF l = 1 THEN "0xbuy" ELSE "0xsell", gasUsed |-> g, gasPrice |-> p * WeiPerGwei] :
      g \in { 150000, 120000 }, p \in IF l = 1 THEN { 30 } ELSE { 30, 25 } }

\* executeSwap from tx.wait() on.
SwapWait ==
  /\ pc.at = "swapWait"
  /\ \/ /\ \E m \in ThrownMessages : LegReturns(pc.leg, Failure("Swap error", m))
        /\ calls' = Append(calls, Call("swapUnconfirmed", pc.leg, <<>>, "", 0))
     \/ \E r \in Receipts(pc.leg) :
          /\ calls' = Append(calls, Call("swapConfirmed", pc.leg, <<>>, "", 0))
          /\ LegReturns(pc.leg, TradeResult(TRUE, Some(r.hash), None, Some(r.gasUsed),
                                            Some(r.gasPrice), None, None))
  /\ UNCHANGED <<flow, opp, gasPrice, validation, prev, route, updated, det, services>>

(* --------------- the bot's monitor loop and DexService ---------------- *)

\* The venues the batched DexService quotes, in configuration order.
MonitorDexes ==
  << [name |-> <<"Uniswap", "V2">>, router |-> "0x7a25"],
     [name |-> <<"Sushiswap">>,     router |-> "0xd9e1"] >>

\* getBaseAmount(tokenA), in the model's units.
MonitorAmount == 1000

\* One result of the batch: the call failed, or returned amounts (<<>> when
\* decodePairPriceResult yields null).
CallResult(success, amounts) == [success |-> success, amounts |-> amounts]

\* The outputs a venue may quote for MonitorAmount: nothing, 0.4% and 0.6%
\* above the input, and seven times the input.
QuotedOutputs == { 0, MonitorAmount + 4, MonitorAmount + 6, 7 * MonitorAmount }

\* The results the multicall may return for one venue's forward and reverse call.
VenueResults ==
  { <<f, r>> :
      f \in { CallResult(FALSE, <<>>), CallResult(TRUE, <<>>) }
            \cup { CallResult(TRUE, <<MonitorAmount, o>>) : o \in QuotedOutputs },
      r \in { CallResult(FALSE, <<>>), CallResult(TRUE, <<MonitorAmount, MonitorAmount>>) } }

\* The quotes of venue i, from results 2i-1 (forward) and 2i (reverse).
QuotesOfDex(i, results, tokenA, tokenB) ==
  LET fwd == results[2 * i - 1]
      rev == results[2 * i]
  IN  (IF fwd.success /\ Len(fwd.amounts) >= 2
         THEN << PriceQuote(MonitorDexes[i].name, fwd.amounts[1], fwd.amounts[2], <<tokenA, tokenB>>) >>
         ELSE <<>>)
      \o (IF rev.success /\ Len(rev.amounts) >= 2
            THEN << PriceQuote(MonitorDexes[i].name, rev.amounts[1], rev.amounts[2], <<tokenB, tokenA>>) >>
            ELSE <<>>)

RECURSIVE BuildQuotes(_, _, _, _)
BuildQuotes(i, results, tokenA, tokenB) ==
  IF i > Len(MonitorDexes) THEN <<>>
  ELSE QuotesOfDex(i, results, tokenA, tokenB) \o BuildQuotes(i + 1, results, tokenA, tokenB)

\* Mutant: every quote built is kept.
ValidQuotes_Unfiltered(quotes) == quotes

\* quotes.filter((quote) => quote.outputAmount > 0n && quote.inputAmount > 0n)
ValidQuotes(quotes) == SelectSeq(quotes, LAMBDA q : q.outputAmount > 0 /\ q.inputAmount > 0)

\* Mutant: a quote is paired with every quote, those of its own venue included.
SameVenue_Never(quoteA, quoteB) == FALSE

\* if (quoteA.dexName === quoteB.dexName) continue;
SameVenue(quoteA, quoteB) == quoteA.dexName = quoteB.dexName

\* Mutant: a pair of equal profit replaces the best one.
Improves_OrEqual(profit, bestProfit) == profit >= bestProfit

\* if (profit > bestProfit)
Improves(profit, bestProfit) == profit > bestProfit

\* The two nested loops over validQuotes, from the k-th pair on.
RECURSIVE BestRoute(_, _, _)
BestRoute(vq, k, best) ==
  IF k >= Len(vq) * Len(vq) THEN best
  ELSE LET quoteA == vq[(k \div Len(vq)) + 1]
           quoteB == vq[(k % Len(vq)) + 1]
           profit == quoteB.outputAmount - quoteA.inputAmount
       IN  IF ~SameVenue(quoteA, quoteB) /\ Improves(profit, best.profit)
             THEN BestRoute(vq, k + 1, [profit |-> profit, route |-> <<quoteA, quoteB>>])
             ELSE BestRoute(vq, k + 1, best)

\* DexService.findArbitrage from the batch's results on; profitPercentage
\* is kept in hundredths of a percent.
findArbitrage(results, tokenA, tokenB) ==
  LET vq   == ValidQuotes(BuildQuotes(1, results, tokenA, tokenB))
      best == BestRoute(vq, 0, [profit |-> 0, route |-> <<>>])
  IN  IF best.profit > 0 /\ Len(best.route) = 2
        THEN Some([route |-> best.route, profit |-> best.profit,
                   profitPercentage |-> (best.profit * 10000) \div best.route[1].inputAmount,
                   requiredCapital |-> best.route[1].inputAmount,
                   estimatedGasCost |-> best.route[1].estimatedGas + best.route[2].estimatedGas])
        ELSE None

\* if (dexArbitrage.profitPercentage > 0.5)
WorthExecuting(arb) == arb.profitPercentage > 50

RouterOf(dexName) ==
  (CHOOSE i \in 1..Len(MonitorDexes) : MonitorDexes[i].name = dexName)

\* One pair of monitorPrices: detection, then the decision to execute.
monitorPrices ==
  /\ pc.at = "idle"
  /\ flow' = "monitor"
  /\ \/ route' = <<>> /\ pc' = At("returned", 0)       \* the batch throws
     \/ \E r1 \in VenueResults, r2 \in VenueResults :
          LET arb == findArbitrage(r1 \o r2, "A", "B")
          IN  IF arb # None /\ WorthExecuting(Get(arb))
                THEN route' = Get(arb).route /\ pc' = At("m_approve", 1)
                ELSE route' = <<>> /\ pc' = At("returned", 0)
  /\ UNCHANGED <<opp, gasPrice, validation, buyTx, sellTx, result, exit, calls, prev, updated, det, services>>

\* await tokenContract.approve(buyRouter, amount), then (sellRouter, amount)
MonitorApprove ==
  /\ pc.at = "m_approve"
  /\ calls' = Append(calls, Call("approve", pc.leg,
                                 <<MonitorDexes[RouterOf(route[pc.leg].dexName)].router>>,
                                 "A", MonitorAmount))
  /\ \/ pc' = At("returned", 0)
     \/ pc' = IF pc.leg = 1 THEN At("m_approve", 2) ELSE At("m_swap", 1)
  /\ UNCHANGED <<flow, opp, gasPrice, validation, buyTx, sellTx, result, exit, prev, route, updated, det, services>>

\* router.swapExactTokensForTokens(...) of the buy, then of the sell
MonitorSwap ==
  /\ pc.at = "m_swap"
  /\ calls' = Append(calls, Call("swapSubmit", pc.leg,
                                 <<MonitorDexes[RouterOf(route[pc.leg].dexName)].router>>,
                                 route[pc.leg].path[1], route[pc.leg].inputAmount))
  /\ \/ pc' = At("returned", 0)
     \/ pc' = At("m_swapWait", pc.leg)
  /\ UNCHANGED <<flow, opp, gasPrice, validation, buyTx, sellTx, result, exit, prev, route, updated, det, services>>

\* await buyTx.wait();  await sellTx.wait(); return sellTx.hash
MonitorSwapWait ==
  /\ pc.at = "m_swapWait"
  /\ \/ /\ calls' = Append(calls, Call("swapUnconfirmed", pc.leg, <<>>, "", 0))
        /\ pc' = At("returned", 0)
     \/ /\ calls' = Append(calls, Call("swapConfirmed", pc.leg, <<>>, "", 0))
        /\ pc' = IF pc.leg = 1 THEN At("m_swap", 2) ELSE At("returned", 0)
  /\ UNCHANGED <<flow, opp, gasPrice, validation, buyTx, sellTx, result, exit, prev, route, updated, det, services>>

(* ------------------------------ detectors ----------------------------- *)

\* The current gas price (wei per unit of gas) when a detector runs.
DetGasPrices == { 0, 1 }

\* The DexService of src/unnamed/part_000: one handler per venue.  A handler
\* returns the quotes with an output above 0 (UniswapV2Handler.getQuotes).
HandlerQuotes(results, tokenA, tokenB) ==
  SelectSeq(BuildQuotes(1, results, tokenA, tokenB), LAMBDA q : q.outputAmount > 0)

\* if (profitPercentage > 500), in percent
UnrealisticPercent == 500

\* findArbitrage of src/unnamed/part_000 from the collected quotes on.
findArbitrageHandlers(quotes) ==
  IF Len(quotes) = 0 THEN None
  ELSE LET best == BestRoute(quotes, 0, [profit |-> 0, route |-> <<>>])
           pct  == (best.profit * 10000) \div best.route[1].inputAmount
       IN  IF best.profit > 0 /\ Len(best.route) = 2
             THEN IF pct > UnrealisticPercent * 100 THEN None
                  ELSE Some([route |-> best.route, profit |-> best.profit,
                             profitPercentage |-> pct,
                             requiredCapital |-> best.route[1].inputAmount,
                             estimatedGasCost |-> best.route[1].estimatedGas
                                                  + best.route[2].estimatedGas])
             ELSE None

\* MAX_PROFIT_THRESHOLD, in percent
MAX_PROFIT_THRESHOLD == 30

\* getPriceQuotes' test of one quote: output over input, in percent above 100.
Suspicious(q) ==
  ((q.outputAmount * 10000) \div q.inputAmount) - 10000 > MAX_PROFIT_THRESHOLD * 100

\* The gas router.getAmountsOut.estimateGas may report for a quote.
GasEstimates == { 2, 3 }

\* getPriceQuotes of the DexService of src/unnamed/part_001 and part_004: for
\* each venue in configuration order that has a usable pool, the forward
\* quote with its gas estimate, unless the quote is suspicious.  outs[i] is
\* venue i's output (None: no quote), gas[i] its gas estimate.
RECURSIVE getPriceQuotes(_, _, _, _, _)
getPriceQuotes(i, outs, gas, tokenIn, tokenOut) ==
  IF i > Len(MonitorDexes) THEN <<>>
  ELSE LET q == [PriceQuote(MonitorDexes[i].name, MonitorAmount, OrZero(outs[i]),
                            <<tokenIn, tokenOut>>) EXCEPT !.estimatedGas = gas[i]]
       IN  (IF outs[i] = None \/ Suspicious(q) THEN <<>> ELSE <<q>>)
           \o getPriceQuotes(i + 1, outs, gas, tokenIn, tokenOut)

\* quotes.sort((a, b) => Number(b.outputAmount - a.outputAmount)): descending
\* by output, equal outputs in their old order.
RECURSIVE InsertQuote(_, _)
InsertQuote(q, sorted) ==
  IF sorted = <<>> THEN <<q>>
  ELSE IF Head(sorted).outputAmount >= q.outputAmount
         THEN <<Head(sorted)>> \o InsertQuote(q, Tail(sorted))
         ELSE <<q>> \o sorted

RECURSIVE SortQuotes(_)
SortQuotes(quotes) ==
  IF quotes = <<>> THEN <<>>
  ELSE InsertQuote(quotes[Len(quotes)], SortQuotes(SubSeq(quotes, 1, Len(quotes) - 1)))

\* findArbitrage of src/unnamed/part_001 from the quotes on; gp is
\* (await getFeeData()).gasPrice || 0n.
findArbitrageSized(quotes, gp) ==
  IF Len(quotes) < 2 THEN None
  ELSE LET sorted       == SortQuotes(quotes)
           bestBuy      == sorted[1]
           bestSell     == sorted[2]
           profit       == bestSell.outputAmount - bestBuy.inputAmount
           gasCostInEth == (bestBuy.estimatedGas + bestSell.estimatedGas) * gp
       IN  IF profit > gasCostInEth
             THEN Some([route |-> <<bestBuy, bestSell>>, profit |-> profit,
                        profitPercentage |-> (profit * 10000) \div bestBuy.inputAmount,
                        requiredCapital |-> bestBuy.inputAmount,
                        estimatedGasCost |-> gasCostInEth])
             ELSE None

\* if (profitPercentage > 10), in percent
TooGoodPercent == 10

\* findArbitrage of src/unnamed/part_004 from the quotes on.
findArbitrageChecked(quotes, gp) ==
  IF Len(quotes) < 2 THEN None
  ELSE LET sorted       == SortQuotes(quotes)
           bestBuy      == sorted[1]
           bestSell     == sorted[2]
           profit       == bestSell.outputAmount - bestBuy.inputAmount
           gasCostInEth == (bestBuy.estimatedGas + bestSell.estimatedGas) * gp
           pct          == (profit * 10000) \div bestBuy.inputAmount
       IN  IF pct > TooGoodPercent * 100 THEN None
           ELSE IF profit > gasCostInEth
             THEN Some([route |-> <<bestBuy, bestSell>>, profit |-> profit,
                        profitPercentage |-> pct,
                        requiredCapital |-> bestBuy.inputAmount,
                        estimatedGasCost |-> gasCostInEth])
             ELSE None

\* A detector has run on quotes at gas price gp and returned found.
Detected(by, quotes, gp, found) ==
  /\ det' = [NoDet EXCEPT !.by = by, !.quotes = quotes, !.gasPrice = gp, !.found = found]
  /\ flow' = "detect"
  /\ pc' = At("returned", 0)
  /\ UNCHANGED <<opp, gasPrice, validation, buyTx, sellTx, result, exit, calls, prev, route,
                 updated, services>>

\* DexService.findArbitrage of src/src/services/dex.ts, called by itself.
\* The batch of src/src/services/dex.ts has answered with results: the
\* quotes built from them, the valid ones among these, and the route found.
Batched(results, gp) ==
  /\ det' = [NoDet EXCEPT !.by = "batched", !.results = results, !.gasPrice = gp,
                           !.quotes = BuildQuotes(1, results, "A", "B"),
                           !.valid = ValidQuotes(BuildQuotes(1, results, "A", "B")),
                           !.found = findArbitrage(results, "A", "B")]
  /\ flow' = "detect"
  /\ pc' = At("returned", 0)
  /\ UNCHANGED <<opp, gasPrice, validation, buyTx, sellTx, result, exit, calls, prev, route,
                 updated, services>>

\* DexService.findArbitrage of src/src/services/dex.ts, called by itself.
findArbitrageBatched ==
  /\ pc.at = "idle"
  /\ \E gp \in DetGasPrices :
       \/ Detected("batched", <<>>, gp, None)            \* the batch throws
       \/ \E r1 \in VenueResults, r2 \in VenueResults : Batched(r1 \o r2, gp)

\* The handlers whose getQuotes may reject: every subset of the venues.
FailingHandlers == SUBSET (1..Len(MonitorDexes))

\* The quotes the handlers outside failed return, in the handlers' order.
RECURSIVE CollectQuotes(_, _, _, _, _)
CollectQuotes(i, results, failed, tokenA, tokenB) ==
  IF i > Len(MonitorDexes) THEN <<>>
  ELSE (IF i \in failed THEN <<>>
        ELSE SelectSeq(QuotesOfDex(i, results, tokenA, tokenB), LAMBDA q : q.outputAmount > 0))
       \o CollectQuotes(i + 1, results, failed, tokenA, tokenB)

\* findArbitrage of src/unnamed/part_000 awaits handler.getQuotes inside its
\* one try block: the first handler that rejects ends the loop, and the catch
\* logs and throws again.
Rethrows(failed) == failed # {}

findArbitrageByHandlers ==
  /\ pc.at = "idle"
  /\ \E gp \in DetGasPrices, r1 \in VenueResults, r2 \in VenueResults, failed \in FailingHandlers :
       LET quotes == HandlerQuotes(r1 \o r2, "A", "B")
       IN  det' = [NoDet EXCEPT !.by = "handlers", !.results = r1 \o r2, !.failed = failed,
                                !.gasPrice = gp,
                                !.threw = Rethrows(failed),
                                !.quotes = IF Rethrows(failed) THEN <<>> ELSE quotes,
                                !.found = IF Rethrows(failed) THEN None
                                          ELSE findArbitrageHandlers(quotes)]
  /\ flow' = "detect"
  /\ pc' = At("returned", 0)
  /\ UNCHANGED <<opp, gasPrice, validation, buyTx, sellTx, result, exit, calls, prev, route,
                 updated, services>>

\* PriceService.updateAllPrices for one pair: each handler's getQuotes has a
\* try block of its own, and every quote of the handlers that answered goes
\* into prices.
updateAllPrices ==
  /\ pc.at = "idle"
  /\ \E r1 \in VenueResults, r2 \in VenueResults, failed \in FailingHandlers :
       det' = [NoDet EXCEPT !.by = "prices", !.results = r1 \o r2, !.failed = failed,
                            !.quotes = CollectQuotes(1, r1 \o r2, failed, "A", "B")]
  /\ flow' = "detect"
  /\ pc' = At("returned", 0)
  /\ UNCHANGED <<opp, gasPrice, validation, buyTx, sellTx, result, exit, calls, prev, route,
                 updated, services>>

\* The outputs and gas estimates getPriceQuotes may meet, venue by venue.
PoolOutputs == [1..Len(MonitorDexes) -> {None} \cup { Some(o) : o \in QuotedOutputs }]

PoolGas == [1..Len(MonitorDexes) -> GasEstimates]

findArbitrageBySize ==
  /\ pc.at = "idle"
  /\ \E gp \in DetGasPrices, outs \in PoolOutputs, gas \in PoolGas :
       LET quotes == getPriceQuotes(1, outs, gas, "A", "B")
       IN  Detected("sized", quotes, gp, findArbitrageSized(quotes, gp))

findArbitrageWithCheck ==
  /\ pc.at = "idle"
  /\ \E gp \in DetGasPrices, outs \in PoolOutputs, gas \in PoolGas :
       LET quotes == getPriceQuotes(1, outs, gas, "A", "B")
       IN  Detected("checked", quotes, gp, findArbitrageChecked(quotes, gp))

(* -------------------- ArbitrageService and CEXService ----------------- *)

\* The profit threshold, in hundredths of a percent (0.5%).
minProfitPercent == 50

\* The oldest a stored price may be, in the model's time units.
maxPriceAgeMs == 2

PoolPrice(dexName, price, age) == [dexName |-> dexName, price |-> price, age |-> age]

\* The prices PriceService may have stored for a pair: every quote of a
\* venue's adapter is stored under that venue's name, so a venue may appear
\* more than once.  age is now - timestamp at the scan.
ScanPrices == { 1000, 1005, 1006 }

StoredEntries ==
  { PoolPrice(MonitorDexes[i].name, p, a) :
      i \in 1..Len(MonitorDexes), p \in ScanPrices, a \in { maxPriceAgeMs, maxPriceAgeMs + 1 } }

StoredPrices ==
  { <<>> } \cup { <<a>> : a \in StoredEntries }
  \cup { <<a, b>> : a \in StoredEntries, b \in StoredEntries }
  \cup { <<a, b, c>> : a \in StoredEntries, b \in StoredEntries,
                       c \in { e \in StoredEntries : e.age = maxPriceAgeMs } }

\* now - p.timestamp <= this.maxPriceAgeMs
Fresh(p) == p.age <= maxPriceAgeMs

\* ((to - from) / from) * 100 > this.minProfitPercent, for prices above 0
ProfitExceeds(from, to) == (to - from) * 10000 > minProfitPercent * from

ScanOpportunity(tokenA, tokenB, buy, sell) ==
  [tokenA |-> tokenA, tokenB |-> tokenB, buyQuote |-> buy, sellQuote |-> sell,
   profitPercent |-> ((sell.price - buy.price) * 10000) \div buy.price,
   profitAmount |-> sell.price - buy.price]

\* The body of scanForArbitrage's two loops for the pair (i, j).
ScanPair(tokenA, tokenB, priceA, priceB) ==
  IF ProfitExceeds(priceA.price, priceB.price)
    THEN << ScanOpportunity(tokenA, tokenB, priceA, priceB) >>
    ELSE IF ProfitExceeds(priceB.price, priceA.price)
      THEN << ScanOpportunity(tokenA, tokenB, priceB, priceA) >>
      ELSE <<>>

\* The opportunities of the loops from the pair (i, j) on, in order.
RECURSIVE ScanFrom(_, _, _, _, _)
ScanFrom(tokenA, tokenB, valid, i, j) ==
  IF i > Len(valid) THEN <<>>
  ELSE IF j > Len(valid) THEN ScanFrom(tokenA, tokenB, valid, i + 1, i + 2)
  ELSE ScanPair(tokenA, tokenB, valid[i], valid[j])
       \o ScanFrom(tokenA, tokenB, valid, i, j + 1)

\* One pair of scanForArbitrage: the opportunities it finds in the stored prices.
ScanOpportunities(tokenA, tokenB, prices) ==
  LET validPrices == SelectSeq(prices, Fresh)
  IN  IF Len(validPrices) < 2 THEN <<>> ELSE ScanFrom(tokenA, tokenB, validPrices, 1, 2)

scanForArbitrage ==
  /\ pc.at = "idle"
  /\ \E prices \in StoredPrices :
       det' = [NoDet EXCEPT !.by = "scan", !.quotes = prices,
                            !.opps = ScanOpportunities("A", "B", prices)]
  /\ flow' = "detect"
  /\ pc' = At("returned", 0)
  /\ UNCHANGED <<opp, gasPrice, validation, buyTx, sellTx, result, exit, calls, prev, route,
                 updated, services>>

CEXPrice(exchange, price) == [exchange |-> exchange, price |-> price]

\* Mutant: a profit equal to the threshold is taken.
CexDirection_AtLeast(dexPrice, cex) ==
  IF (cex.price - dexPrice) * 10000 >= minProfitPercent * dexPrice
    THEN Some([profitPercent |-> ((cex.price - dexPrice) * 10000) \div dexPrice,
               direction |-> "BUY_DEX_SELL_CEX", cex |-> cex.exchange])
    ELSE IF (dexPrice - cex.price) * 10000 >= minProfitPercent * cex.price
      THEN Some([profitPercent |-> ((dexPrice - cex.price) * 10000) \div cex.price,
                 direction |-> "BUY_CEX_SELL_DEX", cex |-> cex.exchange])
      ELSE None

\* The body of CEXService.findArbitrage's loop for one quote; profitPercent
\* is kept in hundredths of a percent.
CexDirection(dexPrice, cex) ==
  IF (cex.price - dexPrice) * 10000 > minProfitPercent * dexPrice
    THEN Some([profitPercent |-> ((cex.price - dexPrice) * 10000) \div dexPrice,
               direction |-> "BUY_DEX_SELL_CEX", cex |-> cex.exchange])
    ELSE IF (dexPrice - cex.price) * 10000 > minProfitPercent * cex.price
      THEN Some([profitPercent |-> ((dexPrice - cex.price) * 10000) \div cex.price,
                 direction |-> "BUY_CEX_SELL_DEX", cex |-> cex.exchange])
      ELSE None

RECURSIVE cexFindArbitrage(_, _)
cexFindArbitrage(dexPrice, cexPrices) ==
  IF cexPrices = <<>> THEN None
  ELSE LET hit == CexDirection(dexPrice, Head(cexPrices))
       IN  IF hit # None THEN hit ELSE cexFindArbitrage(dexPrice, Tail(cexPrices))

\* The CEX quotes handed to findArbitrage.
CexEntries ==
  { CEXPrice(e, p) : e \in { "Binance", "Kraken" }, p \in { 994, 1000, 1005, 1006, 1012 } }

CexLists ==
  { <<>> } \cup { <<a>> : a \in CexEntries } \cup { <<a, b>> : a \in CexEntries, b \in CexEntries }

cexServiceFindArbitrage ==
  /\ pc.at = "idle"
  /\ \E dexPrice \in { 1000, 1006 }, cexPrices \in CexLists :
       det' = [NoDet EXCEPT !.by = "cex", !.quotes = cexPrices, !.dexPrice = dexPrice,
                            !.found = cexFindArbitrage(dexPrice, cexPrices)]
  /\ flow' = "detect"
  /\ pc' = At("returned", 0)
  /\ UNCHANGED <<opp, gasPrice, validation, buyTx, sellTx, result, exit, calls, prev, route,
                 updated, services>>

Return ==
  /\ pc.at = "returned"
  /\ prev' = IF flow = "trade" THEN [exit |-> exit, result |-> result] ELSE prev
  /\ route' = <<>>
  /\ updated' = NoQuotes
  /\ det' = NoDet
  /\ pc' = At("idle", 0)
  /\ flow' = "none"
  /\ opp' = NoOpp
  /\ gasPrice' = None
  /\ validation' = NoValidation
  /\ buyTx' = NoResult
  /\ sellTx' = NoResult
  /\ result' = NoResult
  /\ exit' = ""
  /\ calls' = <<>>
  /\ UNCHANGED services

Next ==
  \/ executeTrade
  \/ GetFeeData
  \/ RefreshQuotes
  \/ AllowanceQuery
  \/ Approve
  \/ ApproveWait
  \/ SwapSubmit
  \/ SwapWait
  \/ monitorPrices
  \/ MonitorApprove
  \/ MonitorSwap
  \/ MonitorSwapWait
  \/ Return

Spec == Init /\ [][Next]_vars

\* The detectors read nothing of the executor's state: they are explored on
\* their own, each call from the idle bot.
DetectorNext ==
  \/ findArbitrageBatched
  \/ findArbitrageByHandlers
  \/ updateAllPrices
  \/ findArbitrageBySize
  \/ findArbitrageWithCheck
  \/ scanForArbitrage
  \/ cexServiceFindArbitrage
  \/ Return

DetectorSpec == Init /\ [][DetectorNext]_vars

(* --------------------------- venue adapters --------------------------- *)

\* The token pairs getQuotes is called with, as (tokenA.address,
\* tokenB.address); an address is a number, ordered as the lower-case
\* strings of the program are.
AdapterPairs == { <<1, 2>>, <<2, 1>> }

\* this.dex.poolFees of the V3 venue.
FeeTiers == { 500, 3000 }

\* BaseDexHandler.getCacheKey: `${token0}-${token1}` with the lower address
\* first, and `-${fee}` appended for a fee tier (0 here: no fee).
getCacheKey(tokenA, tokenB, fee) ==
  IF tokenA < tokenB THEN <<tokenA, tokenB, fee>> ELSE <<tokenB, tokenA, fee>>

\* Whether an adapter consults and fills nonExistentPools.
Caches(h) == h \in {"CachingUniswapV2Handler", "UniswapV3Handler"}

\* What the chain and the node answer for one pool: the probe finds no code
\* ("absent"), finds code and the quoting call answers ("present"), finds
\* code and the quoting call throws ("error"), or the pool lookup throws
\* "pool not found" before the probe ("notfound", UniswapV3Handler only).
V2Outcomes == { "absent", "present", "error" }

V3Outcomes == V2Outcomes \cup { "notfound" }

\* A pool that has answered a quote is deployed, and a deployed contract
\* keeps its code: the chain does not answer that such a pool has no code or
\* is not found.  A pool without code may be deployed later.
Truthful(h, key, outcome) ==
  key \in adapters.everQuoted[h] => outcome \notin { "absent", "notfound" }

\* The part of getQuotes that deals with the pool of key, with every error
\* of a pool taken for a missing pool.
QuotePool_CachesErrors(h, cache, key, outcome) ==
  IF Caches(h) /\ key \in cache
    THEN [probed |-> FALSE, quoted |-> FALSE, quote |-> FALSE, cached |-> FALSE,
          reported |-> FALSE, notFound |-> FALSE, threw |-> FALSE]
    ELSE [probed   |-> outcome \in {"absent", "present", "error"},
          quoted   |-> outcome \in {"present", "error"},
          quote    |-> outcome = "present",
          cached   |-> Caches(h) /\ outcome \in {"absent", "notfound", "error"},
          reported |-> outcome = "absent",
          notFound |-> outcome = "notfound",
          threw    |-> outcome \in {"error", "notfound"}]

\* The part of getQuotes that deals with the pool of key: what it called and
\* what it left in the cache.
QuotePool(h, cache, key, outcome) ==
  IF Caches(h) /\ key \in cache
    THEN [probed |-> FALSE, quoted |-> FALSE, quote |-> FALSE, cached |-> FALSE,
          reported |-> FALSE, notFound |-> FALSE, threw |-> FALSE]
    ELSE [probed   |-> outcome \in {"absent", "present", "error"},
          quoted   |-> outcome \in {"present", "error"},
          quote    |-> outcome = "present",
          cached   |-> Caches(h) /\ outcome \in {"absent", "notfound"},
          reported |-> outcome = "absent",
          notFound |-> outcome = "notfound",
          threw    |-> outcome \in {"error", "notfound"}]

\* One getQuotes(tokenA, tokenB, amount) on adapter h, for the pools of keys;
\* an error of a pool leaves getQuotes by a throw unless the adapter catches
\* it (UniswapV3Handler catches inside its loop over the fee tiers).
AdapterCall(h, tokenA, tokenB, keys, outcomeOf, catches) ==
  LET cache   == adapters.nonExistentPools[h]
      step(k) == QuotePool(h, cache, k, outcomeOf[k])
      threw   == ~catches /\ \E k \in keys : step(k).threw
  IN  /\ \A k \in keys : Truthful(h, k, outcomeOf[k])
      /\ adapters' =
           [nonExistentPools |->
              [adapters.nonExistentPools EXCEPT ![h] = @ \cup { k \in keys : step(k).cached }],
            reported |->
              [adapters.reported EXCEPT ![h] = @ \cup { k \in keys : step(k).reported }],
            everQuoted |->
              [adapters.everQuoted EXCEPT
                 ![h] = @ \cup (IF threw THEN {} ELSE { k \in keys : step(k).quote })],
            last |->
              [handler |-> h, tokenA |-> tokenA, tokenB |-> tokenB,
               known  |-> adapters.reported[h] \cap keys,
               probes |-> { k \in keys : step(k).probed },
               quoted |-> { k \in keys : step(k).quoted },
               quotes |-> IF threw THEN {} ELSE { k \in keys : step(k).quote },
               notFound |-> { k \in keys : step(k).notFound },
               threw  |-> threw]]
      /\ UNCHANGED <<botVars, loops, pools>>

\* UniswapV2Handler.getQuotes of src/src/services/handlers/UniswapV2Handler.ts.
UniswapV2HandlerGetQuotes ==
  \E pair \in AdapterPairs, outcome \in V2Outcomes :
    LET key == getCacheKey(pair[1], pair[2], 0)
    IN  AdapterCall("UniswapV2Handler", pair[1], pair[2], {key},
                    [k \in {key} |-> outcome], FALSE)

\* UniswapV2Handler.getQuotes of the copy that checks the cache first.
CachingUniswapV2HandlerGetQuotes ==
  \E pair \in AdapterPairs, outcome \in V2Outcomes :
    LET key == getCacheKey(pair[1], pair[2], 0)
    IN  AdapterCall("CachingUniswapV2Handler", pair[1], pair[2], {key},
                    [k \in {key} |-> outcome], FALSE)

\* UniswapV3Handler.getQuotes: the loop over this.dex.poolFees.
UniswapV3HandlerGetQuotes ==
  \E pair \in AdapterPairs :
    LET keys == { getCacheKey(pair[1], pair[2], fee) : fee \in FeeTiers }
    IN  \E outcomeOf \in [keys -> V3Outcomes] :
          AdapterCall("UniswapV3Handler", pair[1], pair[2], keys, outcomeOf, TRUE)

\* The adapters keep state between calls and share none with the bot's
\* flows: their calls are explored on their own.
AdapterNext ==
  \/ UniswapV2HandlerGetQuotes
  \/ CachingUniswapV2HandlerGetQuotes
  \/ UniswapV3HandlerGetQuotes

AdapterSpec == Init /\ [][AdapterNext]_vars

(* ---------------------- liquidity filter and sizing ------------------- *)

\* The amounts of the DexService of src/unnamed/part_004 (the filter) and of
\* src/unnamed/part_001 (the sizer) are bigint: a product of two of them can
\* be wider than the checker's integers.  MulDivMod(a, b, c) is the quotient
\* and the remainder of a * b by c, for a, b >= 0 and c > 0, computed by
\* halving b without forming the product.
RECURSIVE MulDivMod(_, _, _)
MulDivMod(a, b, c) ==
  IF b = 0 THEN [q |-> 0, r |-> 0]
  ELSE LET h  == MulDivMod(a, b \div 2, c)
           d  == IF 2 * h.r >= c THEN [q |-> 2 * h.q + 1, r |-> 2 * h.r - c]
                                 ELSE [q |-> 2 * h.q, r |-> 2 * h.r]
           aq == a \div c
           ar == a % c
       IN  IF b % 2 = 0 THEN d
           ELSE IF d.r >= c - ar THEN [q |-> d.q + aq + 1, r |-> d.r - (c - ar)]
                ELSE [q |-> d.q + aq, r |-> d.r + ar]

\* (a * b) / c of bigints
MulDiv(a, b, c) == MulDivMod(a, b, c).q

\* (Number(num) / Number(den)) * 100, kept as the two integers it is
\* computed from: the inputs are small enough for the double to order as the
\* fraction does.  0 / 0 is NaN, x / 0 is Infinity; throws marks a bigint
\* division by zero (RangeError).
Percent(num, den) == [num |-> num, den |-> den, throws |-> FALSE]

DivisionByZero == [num |-> 0, den |-> 0, throws |-> TRUE]

IsNaN(p) == p.den = 0 /\ p.num = 0

\* p > c for a number c of percent: false for NaN.
Above(p, c) == IF p.den = 0 THEN p.num # 0 ELSE p.num > (c * p.den) \div 100

\* p <= c: false for NaN.
AtMost(p, c) == p.den # 0 /\ ~Above(p, c)

\* p === 0
IsZero(p) == p.den # 0 /\ p.num = 0

\* p <= q for two numbers, false if one is NaN.
PercentLeq(p, q) == p.den # 0 /\ q.den # 0 /\ p.num * q.den <= q.num * p.den

\* MIN_LIQUIDITY_USD and MAX_PRICE_IMPACT of the filter (part_004).
MIN_LIQUIDITY_USD == 10000

MAX_PRICE_IMPACT == 2

\* MIN_LIQUIDITY_USD, MAX_PRICE_IMPACT, MIN_PROFIT_USD and CHUNK_SPLITS of
\* the sizer (part_001).
SIZER_MIN_LIQUIDITY_USD == 50000

SIZER_MAX_PRICE_IMPACT == 3

MIN_PROFIT_USD == 50

CHUNK_SPLITS == 4

\* 10n ** BigInt(token.decimals) of an 18-decimals token, in the model's units.
TokenUnit == 100

\* The tokens of the filtered pairs.
WETH == [symbol |-> "WETH", unit |-> TokenUnit]

USDC == [symbol |-> "USDC", unit |-> 1]

DAI == [symbol |-> "DAI", unit |-> TokenUnit]

\* token.symbol.includes("USD")
includesUSD(symbol) == symbol \in {"USDC", "USDT", "LUSD"}

PoolInfo(reserve0, reserve1, token0, token1) ==
  [reserve0 |-> reserve0, reserve1 |-> reserve1, token0 |-> token0, token1 |-> token1]

\* isToken0A ? poolInfo.reserve0 : poolInfo.reserve1, and the other one.
ReserveOf(poolInfo, token) ==
  IF poolInfo.token0 = token.symbol THEN poolInfo.reserve0 ELSE poolInfo.reserve1

CounterReserveOf(poolInfo, token) ==
  IF poolInfo.token0 = token.symbol THEN poolInfo.reserve1 ELSE poolInfo.reserve0

\* Mutant: the output without the 0.3% fee.
FilterAmountOut_NoFee(amountIn, reserveIn, reserveOut) ==
  MulDiv(amountIn * 1000, reserveOut, reserveIn * 1000 + amountIn * 1000)

\* calculatePriceImpact of the filter: numerator / denominator.
FilterAmountOut(amountIn, reserveIn, reserveOut) ==
  MulDiv(amountIn * 997, reserveOut, reserveIn * 1000 + amountIn * 997)

\* calculatePriceImpact of the filter (part_004).
calculatePriceImpact(amountIn, reserveIn, reserveOut) ==
  LET amountOut  == FilterAmountOut(amountIn, reserveIn, reserveOut)
      exactQuote == MulDiv(amountIn, reserveOut, reserveIn)
  IN  Percent(exactQuote - amountOut, exactQuote)

\* getAmountOut of the sizer (part_001).
getAmountOut(amountIn, reserveIn, reserveOut) ==
  LET amountInWithFee == (amountIn * 997) \div 1000
  IN  MulDiv(amountInWithFee, reserveOut, reserveIn + amountInWithFee)

\* calculatePriceImpact of the sizer (part_001): spotPrice and executionPrice
\* are bigint quotients, and amountOut / amountIn divides by zero for a trade
\* size of 0.
calculatePriceImpactSized(amountIn, reserveIn, reserveOut) ==
  IF amountIn = 0 THEN DivisionByZero
  ELSE LET amountOut      == getAmountOut(amountIn, reserveIn, reserveOut)
           spotPrice      == reserveOut \div reserveIn
           executionPrice == amountOut \div amountIn
       IN  Percent(Abs(spotPrice - executionPrice), spotPrice)

\* Mutant: a reserve value equal to the floor is rejected.
BelowFloor_OrEqual(reserveUsdValue, floor) == reserveUsdValue <= floor

\* if (reserveUsdValue < MIN_LIQUIDITY_USD)
BelowFloor(reserveUsdValue, floor) == reserveUsdValue < floor

\* The filter's reserveUsdValue.
FilterUsdValue(reserveB, tokenB) ==
  IF includesUSD(tokenB.symbol) THEN reserveB ELSE reserveB * 1500

\* hasEnoughLiquidity of the filter (part_004).
hasEnoughLiquidity(poolInfo, tokenA, tokenB, amount) ==
  LET reserveA == ReserveOf(poolInfo, tokenA)
      reserveB == CounterReserveOf(poolInfo, tokenA)
  IN  IF BelowFloor(FilterUsdValue(reserveB, tokenB), MIN_LIQUIDITY_USD) THEN FALSE
      ELSE IF reserveA < amount * 3 THEN FALSE
      ELSE IF Above(calculatePriceImpact(amount, reserveA, reserveB), MAX_PRICE_IMPACT) THEN FALSE
      ELSE TRUE

\* The sizer's reserveUsdValue.
SizerUsdValue(reserveA, reserveB, tokenA, tokenB) ==
  IF includesUSD(tokenB.symbol) THEN reserveB
  ELSE IF tokenA.symbol = "WETH" THEN MulDiv(reserveA, 2000, tokenA.unit)
  ELSE reserveB

\* hasEnoughLiquidity of the sizer (part_001).
hasEnoughLiquiditySized(poolInfo, tokenA, tokenB, amount) ==
  LET reserveA == ReserveOf(poolInfo, tokenA)
      reserveB == CounterReserveOf(poolInfo, tokenA)
  IN  IF BelowFloor(SizerUsdValue(reserveA, reserveB, tokenA, tokenB), SIZER_MIN_LIQUIDITY_USD)
        THEN FALSE
      ELSE IF reserveA < amount * 3 THEN FALSE
      ELSE IF Above(calculatePriceImpactSized(amount, reserveA, reserveB), SIZER_MAX_PRICE_IMPACT)
        THEN FALSE
      ELSE TRUE

OptimalTrade(size, expectedProfit, priceImpact, throws) ==
  [size |-> size, expectedProfit |-> expectedProfit, priceImpact |-> priceImpact,
   throws |-> throws]

\* (profit * 2000n) / 10n ** BigInt(tokenB.decimals): a bigint quotient rounds
\* towards zero.
ProfitUsd(profit, tokenB) ==
  IF includesUSD(tokenB.symbol) THEN profit
  ELSE IF profit < 0 THEN 0 - (((0 - profit) * 2000) \div tokenB.unit)
  ELSE (profit * 2000) \div tokenB.unit

\* tradeSize of the i-th candidate
TradeSize(maxAmount, i) == (maxAmount * i) \div CHUNK_SPLITS

\* findOptimalTradeSize's loop from candidate i on.
RECURSIVE TrySizes(_, _, _, _, _, _)
TrySizes(i, bestTrade, reserveIn, reserveOut, tokenB, maxAmount) ==
  IF i > CHUNK_SPLITS THEN bestTrade
  ELSE LET tradeSize   == TradeSize(maxAmount, i)
           priceImpact == calculatePriceImpactSized(tradeSize, reserveIn, reserveOut)
           amountOut   == getAmountOut(tradeSize, reserveIn, reserveOut)
           profit      == amountOut - tradeSize
       IN  IF priceImpact.throws THEN OptimalTrade(0, 0, priceImpact, TRUE)
           ELSE IF /\ AtMost(priceImpact, SIZER_MAX_PRICE_IMPACT)
                   /\ ProfitUsd(profit, tokenB) > MIN_PROFIT_USD
                   /\ profit > bestTrade.expectedProfit
             THEN TrySizes(i + 1, OptimalTrade(tradeSize, profit, priceImpact, FALSE),
                           reserveIn, reserveOut, tokenB, maxAmount)
             ELSE TrySizes(i + 1, bestTrade, reserveIn, reserveOut, tokenB, maxAmount)

\* findOptimalTradeSize of the sizer (part_001).
findOptimalTradeSize(poolInfo, tokenA, tokenB, maxAmount) ==
  TrySizes(1, OptimalTrade(0, 0, Percent(0, 1), FALSE),
           ReserveOf(poolInfo, tokenA), CounterReserveOf(poolInfo, tokenA), tokenB, maxAmount)

\* The reserves and the trade sizes calculatePriceImpact is tried on.
ImpactReserves == { 3, 5, 1000, 2000 }

ImpactSizes == { 0, 1, 2, 3, 10 }

\* Scenario A: reserves of 1,000,000 and 2,000,000 and a trial amount of 1000,
\* on a pair whose counter-token is a dollar token.
ScenarioA ==
  [poolInfo |-> PoolInfo(1000000, 2000000, "WETH", "USDC"), tokenA |-> WETH, tokenB |-> USDC,
   amount |-> 1000]

\* The pools, pairs and trial amounts hasEnoughLiquidity is tried on: the
\* reserves lie around the floors, the amounts around a third of the reserves.
LiquidityReserves == { 6, 7, 3000, 10000, 50000, 60000 }

TokenPairs == { <<WETH, USDC>>, <<WETH, DAI>>, <<DAI, WETH>> }

LiquidityInputs ==
  { ScenarioA }
  \cup { [poolInfo |-> PoolInfo(r0, r1, pair[1].symbol, pair[2].symbol),
          tokenA |-> pair[1], tokenB |-> pair[2], amount |-> a] :
           r0 \in LiquidityReserves, r1 \in LiquidityReserves, pair \in TokenPairs,
           a \in { 1, 2, 1000, 20000 } }
  \cup { [poolInfo |-> PoolInfo(r0, 60000, "USDC", "WETH"),
          tokenA |-> WETH, tokenB |-> USDC, amount |-> 1000] : r0 \in LiquidityReserves }

\* The pools and the largest amounts findOptimalTradeSize is tried on.
SizingInputs ==
  { [poolInfo |-> PoolInfo(r0, r1, pair[1].symbol, pair[2].symbol),
     tokenA |-> pair[1], tokenB |-> pair[2], maxAmount |-> m] :
       r0 \in { 2000, 100000 }, r1 \in { 1000, 3000, 150000, 250000 },
       pair \in TokenPairs, m \in { 2, 400, 800, 40000 } }

\* A function of the filter or of the sizer has been applied to args.
Computed(by, args, out) ==
  /\ pc.at = "idle"
  /\ det' = [NoDet EXCEPT !.by = by, !.args = args, !.out = out]
  /\ flow' = "detect"
  /\ pc' = At("returned", 0)
  /\ UNCHANGED <<opp, gasPrice, validation, buyTx, sellTx, result, exit, calls, prev, route,
                 updated, services>>

\* calculatePriceImpact of the filter on two trade sizes of one pool.
PriceImpactOfFilter ==
  \E reserveIn \in ImpactReserves, reserveOut \in ImpactReserves,
     a1 \in ImpactSizes, a2 \in ImpactSizes :
    /\ a1 <= a2
    /\ Computed("filterImpact",
                [reserveIn |-> reserveIn, reserveOut |-> reserveOut, amountIn |-> <<a1, a2>>],
                << calculatePriceImpact(a1, reserveIn, reserveOut),
                   calculatePriceImpact(a2, reserveIn, reserveOut) >>)

\* calculatePriceImpact of the sizer on two trade sizes of one pool.
PriceImpactOfSizer ==
  \E reserveIn \in ImpactReserves, reserveOut \in ImpactReserves,
     a1 \in ImpactSizes, a2 \in ImpactSizes :
    /\ a1 <= a2
    /\ Computed("sizerImpact",
                [reserveIn |-> reserveIn, reserveOut |-> reserveOut, amountIn |-> <<a1, a2>>],
                << calculatePriceImpactSized(a1, reserveIn, reserveOut),
                   calculatePriceImpactSized(a2, reserveIn, reserveOut) >>)

LiquidityOfFilter ==
  \E x \in LiquidityInputs :
    Computed("filterLiquidity", x,
             hasEnoughLiquidity(x.poolInfo, x.tokenA, x.tokenB, x.amount))

LiquidityOfSizer ==
  \E x \in LiquidityInputs :
    Computed("sizerLiquidity", x,
             hasEnoughLiquiditySized(x.poolInfo, x.tokenA, x.tokenB, x.amount))

OptimalTradeSize ==
  \E x \in SizingInputs :
    Computed("optimal", x,
             findOptimalTradeSize(x.poolInfo, x.tokenA, x.tokenB, x.maxAmount))

\* The filter and the sizer are functions of their arguments: they are
\* applied to drawn inputs, each call from the idle bot.
FilterNext ==
  \/ PriceImpactOfFilter
  \/ PriceImpactOfSizer
  \/ LiquidityOfFilter
  \/ LiquidityOfSizer
  \/ OptimalTradeSize
  \/ Return

FilterSpec == Init /\ [][FilterNext]_vars

(* ------------------------ the services' loops ------------------------- *)

\* The start calls a service is given in a run of the model.
MaxStarts == 2

\* interval: number = 500 of startArbitrageScanning, interval: number = 1000
\* of startPriceUpdates.
DefaultInterval(s) == IF s = "ArbitrageService" THEN 500 ELSE 1000

\* setTimeout(resolve, 12000) of the bot's main loop.
MainInterval == 12000

\* A call of startArbitrageScanning or startPriceUpdates that has entered its
\* loop: at is where it stands ("cycle": scanForArbitrage or updateAllPrices
\* is awaited; "validate": the cycle awaits validateArbitrage of an
\* opportunity; "trade": the cycle awaits executeTrade, with its allowances,
\* submissions and confirmations; "sleep": the timer between two cycles;
\* "returned"), stopped whether stop() has been called since it entered, late
\* whether it has begun a cycle after that stop(), wait the delay of the
\* timer it sleeps on, and age the time since the timestamp (now) of the
\* opportunity it validates or executes, 0 without one.
StartCall(at, stopped, late) ==
  [at |-> at, stopped |-> stopped, late |-> late, wait |-> 0, age |-> 0]

\* if (this.isRunning) return; this.isRunning = true; while (this.isRunning)
\* { try { await <cycle> ... : the call enters its first cycle, or returns at
\* once and leaves everything as it is.
Start(s) ==
  \/ /\ loops.isRunning[s]
     /\ UNCHANGED loops
  \/ /\ ~loops.isRunning[s]
     /\ Len(loops.starts[s]) < MaxStarts
     /\ loops' = [loops EXCEPT !.isRunning[s] = TRUE,
                               !.starts[s] = Append(@, StartCall("cycle", FALSE, FALSE))]

\* stop(): this.isRunning = false
Stop(s) ==
  loops' = [loops EXCEPT !.isRunning[s] = FALSE,
                         !.starts[s] = [i \in DOMAIN @ |->
                                          IF @[i].at = "returned" THEN @[i]
                                          ELSE [@[i] EXCEPT !.stopped = TRUE]]]

startArbitrageScanning == Start("ArbitrageService") /\ UNCHANGED <<botVars, adapters, pools>>

startPriceUpdates == Start("PriceService") /\ UNCHANGED <<botVars, adapters, pools>>

stopArbitrageService == Stop("ArbitrageService") /\ UNCHANGED <<botVars, adapters, pools>>

stopPriceService == Stop("PriceService") /\ UNCHANGED <<botVars, adapters, pools>>

\* The call i of service s moves to at.
MoveTo(s, i, at, late) ==
  loops' = [loops EXCEPT !.starts[s][i] =
              [@ EXCEPT !.at = at, !.late = late, !.wait = 0,
                        !.age = IF at = "trade" THEN @ ELSE 0]]

\* The start calls of the model.
StartCalls == { <<s, i>> : s \in LoopServices, i \in 1..MaxStarts }

Entered(c) == c[2] \in DOMAIN loops.starts[c[1]]

\* Call c stands at at.
CallAt(c, at) == Entered(c) /\ loops.starts[c[1]][c[2]].at = at

\* The awaited scanForArbitrage hands an opportunity to the validator:
\* timestamp: now.
FindTrade(c) ==
  /\ c[1] = "ArbitrageService"
  /\ CallAt(c, "cycle")
  /\ MoveTo(c[1], c[2], "validate", loops.starts[c[1]][c[2]].late)
  /\ UNCHANGED <<botVars, adapters, pools>>

\* validateArbitrage returns: if (validation.isValid) executeTrade is awaited,
\* else the scan goes on.
Validated(c) ==
  /\ CallAt(c, "validate")
  /\ \E isValid \in BOOLEAN :
       MoveTo(c[1], c[2], IF isValid THEN "trade" ELSE "cycle",
              loops.starts[c[1]][c[2]].late)
  /\ UNCHANGED <<botVars, adapters, pools>>

\* Time passes while validateArbitrage and executeTrade await their network
\* round trips; nothing in them reads the clock or opportunity.timestamp.
\* Ages are counted up to one past maxPriceAgeMs.
Tick ==
  /\ \E c \in StartCalls :
       /\ CallAt(c, "validate") \/ CallAt(c, "trade")
       /\ loops.starts[c[1]][c[2]].age <= maxPriceAgeMs
  /\ loops' = [loops EXCEPT !.starts =
                [s \in LoopServices |->
                  [i \in DOMAIN loops.starts[s] |->
                    IF /\ loops.starts[s][i].at \in {"validate", "trade"}
                       /\ loops.starts[s][i].age <= maxPriceAgeMs
                      THEN [loops.starts[s][i] EXCEPT !.age = @ + 1]
                      ELSE loops.starts[s][i]]]]
  /\ UNCHANGED <<botVars, adapters, pools>>

\* executeTrade of the opportunity returns, and the scan goes on.
TradeDone(c) ==
  /\ CallAt(c, "trade")
  /\ MoveTo(c[1], c[2], "cycle", loops.starts[c[1]][c[2]].late)
  /\ UNCHANGED <<botVars, adapters, pools>>

\* setTimeout(resolve, interval * 2) of the catch, without the doubling.
BackOff_Same(interval) == interval

\* setTimeout(resolve, interval * 2) of the catch.
BackOff(interval) == interval * 2

\* The timer a loop sleeps on after a cycle: interval after the awaited call
\* returned, interval * 2 in the catch.  interval is never assigned to.
SleepFor(s, threw) ==
  IF threw THEN BackOff(DefaultInterval(s)) ELSE DefaultInterval(s)

\* The awaited scanForArbitrage or updateAllPrices ends, by a return or a
\* throw, and the loop sleeps.
EndCycle(c) ==
  /\ CallAt(c, "cycle")
  /\ \E threw \in BOOLEAN :
       loops' = [loops EXCEPT !.starts[c[1]][c[2]] =
                   [@ EXCEPT !.at = "sleep", !.wait = SleepFor(c[1], threw)]]
  /\ UNCHANGED <<botVars, adapters, pools>>

\* The timer fires and the loop tests while (this.isRunning).
Wake(c) ==
  /\ CallAt(c, "sleep")
  /\ IF loops.isRunning[c[1]]
       THEN MoveTo(c[1], c[2], "cycle",
                   loops.starts[c[1]][c[2]].late \/ loops.starts[c[1]][c[2]].stopped)
       ELSE MoveTo(c[1], c[2], "returned", loops.starts[c[1]][c[2]].late)
  /\ UNCHANGED <<botVars, adapters, pools>>

\* main: try { while (true) { await bot.monitorPrices(); await new
\* Promise((resolve) => setTimeout(resolve, 12000)); } } catch (error) {
\* logError(...) }.  monitorPrices returns and the loop sleeps, or it throws
\* and the catch, which is outside the while, ends the loop.
MainEndCycle ==
  /\ loops.main.at = "cycle"
  /\ \/ loops' = [loops EXCEPT !.main = [at |-> "sleep", wait |-> MainInterval]]
     \/ loops' = [loops EXCEPT !.main = [at |-> "exited", wait |-> 0]]
  /\ UNCHANGED <<botVars, adapters, pools>>

\* The timer of the main loop fires: while (true).
MainWake ==
  /\ loops.main.at = "sleep"
  /\ loops' = [loops EXCEPT !.main = [at |-> "cycle", wait |-> 0]]
  /\ UNCHANGED <<botVars, adapters, pools>>

LoopNext ==
  \/ startArbitrageScanning
  \/ startPriceUpdates
  \/ stopArbitrageService
  \/ stopPriceService
  \/ \E c \in StartCalls : FindTrade(c)
  \/ \E c \in StartCalls : Validated(c)
  \/ Tick
  \/ \E c \in StartCalls : TradeDone(c)
  \/ \E c \in StartCalls : EndCycle(c)
  \/ \E c \in StartCalls : Wake(c)
  \/ MainEndCycle
  \/ MainWake

LoopSpec == Init /\ [][LoopNext]_vars

\* Every awaited call and every timer of every loop completes, and a scan
\* cycle, which runs over finitely many pairs, comes to its end.
LoopFairSpec ==
  /\ LoopSpec
  /\ \A c \in StartCalls :
       /\ WF_vars(Validated(c)) /\ WF_vars(TradeDone(c))
       /\ SF_vars(EndCycle(c)) /\ WF_vars(Wake(c))

(* ------------------------- the pool cache ----------------------------- *)

\* The last block of the chain in a run of the model.
MaxBlock == 3

\* A PoolCache entry: the block number it is filed under and the block whose
\* reserves its info holds.
PoolCache(blockNumber, reservesOf) == [blockNumber |-> blockNumber, reservesOf |-> reservesOf]

\* A new block arrives.
NewBlock ==
  /\ pools.block < MaxBlock
  /\ pools' = [pools EXCEPT !.block = @ + 1]
  /\ UNCHANGED <<botVars, adapters, loops>>

\* getPriceQuotes: SUPPORTED_DEXES.map((dex) => this.getPoolInfoCached(...))
\* starts one fetch per venue, each awaiting provider.getBlockNumber().
getPriceQuotesStart ==
  /\ \A v \in PoolVenues : pools.pass.at[v] = "idle"
  /\ pools' = [pools EXCEPT !.pass = [at |-> [v \in PoolVenues |-> "getBlockNumber"],
                                      currentBlock |-> [v \in PoolVenues |-> 0],
                                      info |-> [v \in PoolVenues |-> 0],
                                      hit |-> [v \in PoolVenues |-> None]]]
  /\ UNCHANGED <<botVars, adapters, loops>>

\* if (cached && cached.blockNumber === currentBlock), with every entry taken
\* for current.
CacheHit_AnyBlock(cached, currentBlock) == cached # None

\* if (cached && cached.blockNumber === currentBlock)
CacheHit(cached, currentBlock) ==
  cached # None /\ Get(cached).blockNumber = currentBlock

\* getPoolInfoCached of venue v: getBlockNumber answers; the cached info is
\* returned if its blockNumber is the current block, else getPoolInfo is
\* awaited.  hit keeps the block number of the entry that was returned.
GetBlockNumber(v) ==
  /\ pools.pass.at[v] = "getBlockNumber"
  /\ LET cached == pools.poolCache[v]
     IN  IF CacheHit(cached, pools.block)
           THEN pools' = [pools EXCEPT !.pass.currentBlock[v] = pools.block,
                                       !.pass.info[v] = Get(cached).reservesOf,
                                       !.pass.hit[v] = Some(Get(cached).blockNumber),
                                       !.pass.at[v] = "done"]
           ELSE pools' = [pools EXCEPT !.pass.currentBlock[v] = pools.block,
                                       !.pass.at[v] = "getPoolInfo"]
  /\ UNCHANGED <<botVars, adapters, loops>>

\* getPoolInfo of venue v answers: null (no pool, or an error), or the
\* reserves the chain holds now, which are filed under the block number read
\* before.  info is the block the reserves are of, 0 for null.
GetPoolInfo(v) ==
  /\ pools.pass.at[v] = "getPoolInfo"
  /\ \/ pools' = [pools EXCEPT !.pass.info[v] = 0, !.pass.at[v] = "done"]
     \/ pools' = [pools EXCEPT
                    !.poolCache[v] = Some(PoolCache(pools.pass.currentBlock[v], pools.block)),
                    !.pass.info[v] = pools.block,
                    !.pass.at[v] = "done"]
  /\ UNCHANGED <<botVars, adapters, loops>>

\* Promise.all has resolved: the pools are sized and compared.
PoolsFetched == \A v \in PoolVenues : pools.pass.at[v] = "done"

\* getPriceQuotes returns.
getPriceQuotesReturn ==
  /\ PoolsFetched
  /\ pools' = [pools EXCEPT !.pass = NoPass]
  /\ UNCHANGED <<botVars, adapters, loops>>

PoolNext ==
  \/ NewBlock
  \/ getPriceQuotesStart
  \/ \E v \in PoolVenues : GetBlockNumber(v)
  \/ \E v \in PoolVenues : GetPoolInfo(v)
  \/ getPriceQuotesReturn

PoolSpec == Init /\ [][PoolNext]_vars

(* ------------------------------ claims -------------------------------- *)

\* The positions of the log that hold operation op of leg l.
Events(op, l) == { i \in 1..Len(calls) : calls[i].op = op /\ calls[i].leg = l }

\* The operations that execute a trade: allowance reads, approvals, swaps.
ExecutionOps == {"allowance", "allowanceRead", "approve", "approveConfirmed", "swapSubmit", "swapConfirmed",
                 "swapUnconfirmed"}

\* C1: the sell swap is submitted only after the buy swap's receipt was
\* obtained: every submission of leg 2 in the log has a confirmation of
\* leg 1 before it, in executeTrade and in DexService.executeArbitrage.
C1_Leg2AfterLeg1Confirmed ==
  \A i \in Events("swapSubmit", 2) : \E j \in Events("swapConfirmed", 1) : j < i

C1_Witness ==
  /\ flow = "trade"
  /\ Events("swapSubmit", 2) # {}
  /\ Events("swapConfirmed", 1) # {}

\* C2: once executeSwap has returned a failure for leg 1, executeTrade has
\* returned that failure (success = false) and the log holds no allowance
\* read, approval or swap of leg 2.
C2_Leg1FailureStops ==
  (flow = "trade" /\ buyTx.error # None) =>
    /\ pc.at = "returned"
    /\ exit = "Leg1Failed"
    /\ ~result.success
    /\ result = buyTx
    /\ \A op \in ExecutionOps : Events(op, 2) = {}

C2_Witness ==
  /\ exit = "Leg1Failed"
  /\ Events("swapSubmit", 1) # {}
  /\ Events("swapUnconfirmed", 1) # {}

\* C3: executeTrade starts with the validation (the fee data read is its
\* first call); a validation that came back invalid ends the call with
\* success = false and the validation's reason as the error, and nothing of
\* the execution (allowance, approval, swap) is in the log.
C3_InvalidValidationAborts ==
  flow = "trade" =>
    /\ calls # <<>> => calls[1].op = "getFeeData"
    /\ (\E i \in 1..Len(calls) : calls[i].op \in ExecutionOps) => validation.isValid
    /\ validation.reason # None =>
         /\ pc.at = "returned"
         /\ exit = "Rejected"
         /\ ~result.success
         /\ result.error = validation.reason

C3_Witness ==
  /\ exit = "Rejected"
  /\ validation.reason # None
  /\ result.error = validation.reason
  /\ Len(calls) >= 2

\* C4: every swap submitted, on any path, follows a validation of that
\* opportunity that returned valid.
C4_SwapOnlyAfterValidation ==
  (\E l \in {1, 2} : Events("swapSubmit", l) # {}) => validation.isValid

\* The cost of a confirmed leg: gas used times effective gas price.
LegCost(tx) == OrZero(tx.gasUsed) * OrZero(tx.effectiveGasPrice)

\* The submission of leg 2 threw: leg 1 is confirmed, leg 2 was submitted
\* and executeSwap never waited for it.
Leg2SubmissionThrew ==
  /\ exit = "Leg2Failed"
  /\ Events("swapSubmit", 2) # {}
  /\ Events("swapUnconfirmed", 2) = {}

\* C5: when leg 1 is confirmed and the submission of leg 2 throws, the
\* result has success = false, an actualProfit of minus leg 1's cost and a
\* total cost of leg 1's cost alone.
C5_Leg2FailureReportsLoss ==
  Leg2SubmissionThrew =>
    /\ ~result.success
    /\ result.actualProfit = Some(0 - LegCost(buyTx))
    /\ result.totalCost = Some(LegCost(buyTx))

\* C6: the result of a leg-2 failure differs from the result of any
\* validation rejection, allowance failure or leg-1 failure (here: of the
\* call before it).
C6_Leg2FailureDistinct ==
  (exit = "Leg2Failed" /\ prev.exit \in {"Rejected", "AllowanceFailed", "Leg1Failed"}) =>
    result # prev.result

\* C7: a gas price above the ceiling makes the validation invalid with a
\* reason that cites that gas price, and no adapter was asked for a quote.
C7_GasPriceShortCircuit ==
  (flow = "trade" /\ gasPrice # None /\ Get(gasPrice) > maxGasPrice) =>
    /\ ~validation.isValid
    /\ validation.reason # None
    /\ Get(validation.reason).text = "Gas price too high"
    /\ Get(validation.reason).n1 * WeiPerGwei + Get(validation.reason).n2 = Get(gasPrice)
    /\ \A l \in {1, 2} : Events("getQuotes", l) = {}
    /\ updated = NoQuotes

C7_Witness ==
  /\ gasPrice = Some(80 * WeiPerGwei)
  /\ maxGasPrice = 50 * WeiPerGwei
  /\ validation.reason # None
  /\ Get(validation.reason).n1 = 80

\* C8: each leg is quoted again at its own recorded input amount, and a
\* missing refreshed quote gives 'Failed to get updated quotes' without
\* slippage or profit.
C8_RefreshAtRecordedInputs ==
  /\ \A i \in Events("getQuotes", 1) : calls[i].amount = opp.buyQuote.inputAmount
  /\ \A i \in Events("getQuotes", 2) : calls[i].amount = opp.sellQuote.inputAmount
  /\ (Events("getQuotes", 1) \cup Events("getQuotes", 2) # {} /\ validation.reason # None
        /\ Get(validation.reason).text # "Validation error"
        /\ (updated.buy = <<>> \/ updated.sell = <<>>)) =>
       validation = FailedQuotes

\* The slippage of a leg is strictly above the ceiling.
Exceeds(recorded, refreshed) == (recorded - refreshed) * 100 > maxSlippagePercent * recorded

\* h is num / den * 100 rounded to two decimals, in hundredths.
IsFixed2(h, num, den) == 2 * Abs(h * den - num * 10000) <= den

\* C9: with both legs quoted again, a slippage (recorded - refreshed) /
\* recorded * 100 strictly above the ceiling on either leg makes the
\* validation invalid with reason 'Slippage too high' naming both
\* slippages, and the result carries both refreshed quotes.
C9_SlippageRejection ==
  (updated.buy # <<>> /\ updated.sell # <<>>
     /\ \/ Exceeds(opp.buyQuote.outputAmount, updated.buy[1].outputAmount)
        \/ Exceeds(opp.sellQuote.outputAmount, updated.sell[1].outputAmount)) =>
    /\ ~validation.isValid
    /\ validation.reason # None
    /\ Get(validation.reason).text = "Slippage too high"
    /\ IsFixed2(Get(validation.reason).n1,
                opp.buyQuote.outputAmount - updated.buy[1].outputAmount, opp.buyQuote.outputAmount)
    /\ IsFixed2(Get(validation.reason).n2,
                opp.sellQuote.outputAmount - updated.sell[1].outputAmount, opp.sellQuote.outputAmount)
    /\ validation.updatedBuyQuote = Some(updated.buy[1])
    /\ validation.updatedSellQuote = Some(updated.sell[1])

\* Scenario C: the refreshed sell output is 3% below the recorded one.
C9_Witness ==
  /\ updated.buy # <<>> /\ updated.sell # <<>>
  /\ updated.buy[1].outputAmount = opp.buyQuote.outputAmount
  /\ updated.sell[1].outputAmount * 100 = opp.sellQuote.outputAmount * 97
  /\ maxSlippagePercent = 1
  /\ validation.reason = Some(Message("Slippage too high", "Buy Sell", 0, 300))

\* C10: when the gas, refresh and slippage checks pass, estimatedNetProfit
\* is refreshed sell output - refreshed buy input - (both gas estimates x
\* gas price), isValid holds exactly when it is > 0, and the reason is
\* 'Not profitable after gas' exactly when it is not.
C10_NetProfit ==
  (updated.buy # <<>> /\ updated.sell # <<>>
     /\ ~Exceeds(opp.buyQuote.outputAmount, updated.buy[1].outputAmount)
     /\ ~Exceeds(opp.sellQuote.outputAmount, updated.sell[1].outputAmount)) =>
    LET net == updated.sell[1].outputAmount - updated.buy[1].inputAmount
               - (updated.buy[1].estimatedGas + updated.sell[1].estimatedGas) * Get(gasPrice)
    IN  /\ validation.estimatedNetProfit = Some(net)
        /\ validation.isValid <=> net > 0
        /\ net > 0 => validation.reason = None
        /\ net <= 0 => validation.reason = Some(Message("Not profitable after gas", "", 0, 0))

C10_Witness ==
  /\ validation.isValid
  /\ validation.estimatedNetProfit # None
  /\ Get(validation.estimatedNetProfit) > 0
  /\ Get(validation.estimatedGasCost) = 2 * QuoteGas * Get(gasPrice)

\* The break-even case: a net profit of exactly 0 is rejected.
C10_BreakEven ==
  /\ validation.estimatedNetProfit = Some(0)
  /\ ~validation.isValid

\* validateArbitrage has returned to executeTrade in the running call.
ValidationReturned == flow = "trade" /\ pc.at \notin {"idle", "getFeeData", "getQuotes"}

\* C11: every validation returned with isValid = false, the one of the
\* catch block included, carries a reason that is not empty, and every
\* validation returned with isValid = true carries none.
C11_ReasonIffInvalid ==
  ValidationReturned =>
    /\ ~validation.isValid => (validation.reason # None /\ Get(validation.reason).text # "")
    /\ validation.isValid => validation.reason = None

\* An external call threw and the catch block answered.
C11_Witness ==
  /\ ValidationReturned
  /\ ~validation.isValid
  /\ validation.reason = Some(Message("Validation error", "execution reverted", 0, 0))
  /\ Events("getQuotes", 1) # {}

C13_SuccessAggregates ==
  exit = "Success" =>
    LET gas  == OrZero(buyTx.gasUsed) + OrZero(sellTx.gasUsed)
        cost == LegCost(buyTx) + LegCost(sellTx)
    IN  /\ result.success
        /\ result.gasUsed = Some(gas)
        /\ result.totalCost = Some(cost)
        /\ result.effectiveGasPrice = Some(cost \div gas)
        /\ result.actualProfit
             = Some(opp.sellQuote.outputAmount - opp.buyQuote.inputAmount - cost)

\* The detectors that return a route of two quotes.
RouteDetectors == {"batched", "handlers", "sized", "checked"}

\* A detector of routes has returned an opportunity.
RouteFound == det.by \in RouteDetectors /\ det.found # None

\* C14: the two legs of every opportunity a detector produces are on
\* different venues.
C14_DifferentVenues ==
  /\ RouteFound => Get(det.found).route[1].dexName # Get(det.found).route[2].dexName
  /\ det.by = "scan" =>
       \A i \in 1..Len(det.opps) : det.opps[i].buyQuote.dexName # det.opps[i].sellQuote.dexName

\* C15: a detector given fewer than 2 quotes, and the scanner with fewer
\* than 2 fresh prices, returns no opportunity.
C15_FewerThanTwoIsNone ==
  /\ (det.by \in RouteDetectors /\ Len(det.quotes) < 2) => det.found = None
  /\ (det.by = "scan" /\ Len(SelectSeq(det.quotes, Fresh)) < 2) => det.opps = <<>>

\* One quote with an output above its input, and no opportunity.
C15_Witness ==
  /\ det.by \in {"batched", "handlers"}
  /\ Len(det.quotes) = 1
  /\ det.quotes[1].outputAmount > det.quotes[1].inputAmount
  /\ det.found = None

\* The largest output among the quotes the detector was given.
HighestOutput(quotes) ==
  CHOOSE m \in { quotes[i].outputAmount : i \in 1..Len(quotes) } :
    \A i \in 1..Len(quotes) : quotes[i].outputAmount <= m

\* C16: with at least two quotes at the same input, the sell leg of the
\* returned opportunity is the quote with the highest output and the buy
\* leg is a quote of another venue whose output is not higher.
C16_SellIsHighestOutput ==
  (RouteFound /\ Len(det.quotes) >= 2
     /\ \A i \in 1..Len(det.quotes) : det.quotes[i].inputAmount = det.quotes[1].inputAmount) =>
    LET buy  == Get(det.found).route[1]
        sell == Get(det.found).route[2]
    IN  /\ sell.outputAmount = HighestOutput(det.quotes)
        /\ buy.outputAmount <= sell.outputAmount
        /\ buy.dexName # sell.dexName

\* The quotes the pairwise loops of a detector run over.
PairwiseQuotes == IF det.by = "batched" THEN ValidQuotes(det.quotes) ELSE det.quotes

\* The ordered pairs of positions whose quotes are on different venues.
CrossPairs(vq) ==
  { p \in (1..Len(vq)) \X (1..Len(vq)) : vq[p[1]].dexName # vq[p[2]].dexName }

PairProfit(vq, p) == vq[p[2]].outputAmount - vq[p[1]].inputAmount

\* p comes before q in the order of the two loops.
Earlier(p, q) == p[1] < q[1] \/ (p[1] = q[1] /\ p[2] < q[2])

\* C17: the pairwise detectors return a pair of quotes of different venues
\* whose profit sell.output - buy.input is above 0, is the largest of all
\* such pairs and is strictly larger than that of every pair met before it;
\* they return none when no pair has a profit above 0.
C17_FirstMaximalPair ==
  det.by \in {"batched", "handlers"} =>
    LET vq == PairwiseQuotes
    IN  /\ det.found # None =>
             \E p \in CrossPairs(vq) :
               /\ Get(det.found).route = <<vq[p[1]], vq[p[2]]>>
               /\ Get(det.found).profit = PairProfit(vq, p)
               /\ PairProfit(vq, p) > 0
               /\ \A q \in CrossPairs(vq) :
                    /\ PairProfit(vq, q) <= PairProfit(vq, p)
                    /\ Earlier(q, p) => PairProfit(vq, q) < PairProfit(vq, p)
        /\ (\A q \in CrossPairs(vq) : PairProfit(vq, q) <= 0) => det.found = None

\* Two quotes of different venues tie for the largest output: the pair met
\* first is returned.
C17_Witness ==
  /\ det.by = "batched"
  /\ det.found # None
  /\ Len(det.quotes) = 2
  /\ det.quotes[1].outputAmount = det.quotes[2].outputAmount
  /\ Get(det.found).route = <<det.quotes[1], det.quotes[2]>>

\* C18: no detector returns an opportunity whose profit percentage is above
\* the implausibility ceiling (the largest one any detector configures).
C18_ProfitBelowCeiling ==
  RouteFound => Get(det.found).profitPercentage <= UnrealisticPercent * 100

\* C19: a returned opportunity's profit is strictly above the combined gas
\* cost of its legs at the current gas price.
C19_ProfitAboveGasCost ==
  RouteFound =>
    LET r == Get(det.found).route
    IN  Get(det.found).profit > (r[1].estimatedGas + r[2].estimatedGas) * det.gasPrice

\* The CEX quote at position i exceeds the threshold in one direction.
CexUp(i) ==
  (det.quotes[i].price - det.dexPrice) * 10000 > minProfitPercent * det.dexPrice

CexDown(i) ==
  (det.dexPrice - det.quotes[i].price) * 10000 > minProfitPercent * det.quotes[i].price

\* C20: CEXService.findArbitrage returns the first quote in list order that
\* exceeds minProfitPercent in a direction, with that direction (buy on the
\* DEX first) and the quote's profit, and none exactly when no quote
\* exceeds it in either direction.
C20_FirstQualifyingCexQuote ==
  det.by = "cex" =>
    LET hits == { i \in 1..Len(det.quotes) : CexUp(i) \/ CexDown(i) }
    IN  /\ det.found = None <=> hits = {}
        /\ hits # {} =>
             LET i == CHOOSE h \in hits : \A g \in hits : h <= g
                 f == Get(det.found)
             IN  /\ f.cex = det.quotes[i].exchange
                 /\ f.direction = IF CexUp(i) THEN "BUY_DEX_SELL_CEX" ELSE "BUY_CEX_SELL_DEX"
                 /\ f.profitPercent
                      = IF CexUp(i)
                          THEN ((det.quotes[i].price - det.dexPrice) * 10000) \div det.dexPrice
                          ELSE ((det.dexPrice - det.quotes[i].price) * 10000)
                               \div det.quotes[i].price

\* The first quote gives 0.6%, the second 1.2%: the first is returned.
C20_Witness ==
  /\ det.by = "cex"
  /\ det.dexPrice = 1000
  /\ det.quotes = << CEXPrice("Binance", 1006), CEXPrice("Kraken", 1012) >>
  /\ det.found = Some([profitPercent |-> 60, direction |-> "BUY_DEX_SELL_CEX", cex |-> "Binance"])

\* C21: once a getCode probe of an adapter has found no pool for a pair (and
\* fee tier), a later getQuotes on that adapter for the pair, in either token
\* order, issues no probe and no quoting call for that pool and returns no
\* quote of it.
C21_AbsentPoolNotProbedAgain ==
  \A k \in adapters.last.known :
    k \notin adapters.last.probes \cup adapters.last.quoted \cup adapters.last.quotes

\* The same for the two adapters that keep the cache.
C21_CachingAdaptersSkip ==
  Caches(adapters.last.handler) => C21_AbsentPoolNotProbedAgain

\* A caching adapter is asked again, in the other token order, about a pool
\* its probe found missing.
C21_Witness ==
  /\ Caches(adapters.last.handler)
  /\ adapters.last.known # {}
  /\ adapters.last.tokenA > adapters.last.tokenB

\* The quotes venue i's handler returns for the results of the call.
VenueQuotes(i) ==
  SelectSeq(QuotesOfDex(i, det.results, "A", "B"), LAMBDA q : q.outputAmount > 0)

\* Every quote of the venues whose handler did not fail has been collected.
OtherVenuesCollected ==
  \A i \in (1..Len(MonitorDexes)) \ det.failed :
    \A k \in 1..Len(VenueQuotes(i)) :
      \E j \in 1..Len(det.quotes) : det.quotes[j] = VenueQuotes(i)[k]

\* C22: an error raised while one venue is quoted does not keep the quotes
\* of the other venues from being collected for the pair.
C22_VenueErrorsIsolated ==
  det.by \in {"handlers", "prices"} => OtherVenuesCollected

\* The same for PriceService.updateAllPrices alone.
C22_PriceUpdateIsolates ==
  det.by = "prices" => OtherVenuesCollected

\* One venue's handler failed while the other venue had a quote to give.
C22_Witness ==
  /\ det.by = "prices"
  /\ det.failed = {1}
  /\ Len(det.quotes) > 0

\* C23: for fixed positive reserves calculatePriceImpact does not decrease as
\* the trade size grows, and it is 0 only for a trade size of 0.  Calls that
\* throw or yield NaN are left out of the comparison.
C23_ImpactMonotone ==
  det.by \in {"filterImpact", "sizerImpact"} =>
    /\ (\A i \in 1..2 : ~det.out[i].throws /\ ~IsNaN(det.out[i]))
         => PercentLeq(det.out[1], det.out[2])
    /\ \A i \in 1..2 : (~det.out[i].throws /\ IsZero(det.out[i])) => det.args.amountIn[i] = 0

\* The filter's call for scenario A has returned.
ScenarioAFiltered == det.by = "filterLiquidity" /\ det.args = ScenarioA

\* C24, as the code computes it: for reserves of 1,000,000 and 2,000,000 and
\* an input of 1000 the constant-product output
\* floor(1000*997*2000000 / (1000000*1000 + 1000*997)) is 1992 (as is the
\* sizer's getAmountOut), the price impact is (2000 - 1992) / 2000 = 0.4%,
\* which is not above the ceiling of 2%, and hasEnoughLiquidity passes.
C24_ScenarioA ==
  ScenarioAFiltered =>
    LET reserveIn  == ReserveOf(det.args.poolInfo, det.args.tokenA)
        reserveOut == CounterReserveOf(det.args.poolInfo, det.args.tokenA)
        impact     == calculatePriceImpact(det.args.amount, reserveIn, reserveOut)
    IN  /\ FilterAmountOut(det.args.amount, reserveIn, reserveOut) = 1992
        /\ getAmountOut(det.args.amount, reserveIn, reserveOut) = 1992
        /\ impact = Percent(8, 2000)
        /\ ~Above(impact, MAX_PRICE_IMPACT)
        /\ det.out

C24_Witness == ScenarioAFiltered /\ det.out

\* C24 as stated: the output is 1994 and the impact about 0.1% (between
\* 0.05% and 0.15%).
C24_Output1994 ==
  ScenarioAFiltered =>
    LET reserveIn  == ReserveOf(det.args.poolInfo, det.args.tokenA)
        reserveOut == CounterReserveOf(det.args.poolInfo, det.args.tokenA)
        impact     == calculatePriceImpact(det.args.amount, reserveIn, reserveOut)
    IN  /\ FilterAmountOut(det.args.amount, reserveIn, reserveOut) = 1994
        /\ impact.num * 10000 >= 5 * impact.den
        /\ impact.num * 10000 <= 15 * impact.den
        /\ ~Above(impact, MAX_PRICE_IMPACT)
        /\ det.out

Qualifies(i) ==
  LET reserveIn  == ReserveOf(det.args.poolInfo, det.args.tokenA)
      reserveOut == CounterReserveOf(det.args.poolInfo, det.args.tokenA)
      tradeSize  == TradeSize(det.args.maxAmount, i)
  IN  /\ AtMost(calculatePriceImpactSized(tradeSize, reserveIn, reserveOut),
                SIZER_MAX_PRICE_IMPACT)
      /\ ProfitUsd(getAmountOut(tradeSize, reserveIn, reserveOut) - tradeSize, det.args.tokenB)
           > MIN_PROFIT_USD

\* C26: findOptimalTradeSize returns the largest candidate size
\* i * maxAmount / CHUNK_SPLITS that qualifies, and size 0 if none does.
C26_LargestQualifying ==
  (det.by = "optimal" /\ ~det.out.throws) =>
    LET qualifying == { i \in 1..CHUNK_SPLITS : Qualifies(i) }
    IN  IF qualifying = {} THEN det.out.size = 0
        ELSE det.out.size
               = TradeSize(det.args.maxAmount,
                           CHOOSE i \in qualifying : \A j \in qualifying : j <= i)

\* What does hold of the size returned: it is 0 or a qualifying candidate, so
\* never above maxAmount nor with an impact above the ceiling.
C26_WithinLimits ==
  (det.by = "optimal" /\ ~det.out.throws) =>
    /\ det.out.size <= det.args.maxAmount
    /\ \/ det.out.size = 0
       \/ \E i \in 1..CHUNK_SPLITS :
            Qualifies(i) /\ det.out.size = TradeSize(det.args.maxAmount, i)

\* Call c has entered its loop and stop() has been called since.
Stopped(c) == Entered(c) /\ loops.starts[c[1]][c[2]].stopped

\* Call c has returned.
Returned(c) == Entered(c) /\ loops.starts[c[1]][c[2]].at = "returned"

\* C27: after stop() a loop begins no cycle other than the one in progress.
C27_NoCycleAfterStop ==
  \A c \in StartCalls : Entered(c) => ~loops.starts[c[1]][c[2]].late

\* C27: after stop() the start call eventually returns.
C27_StoppedReturns ==
  \A c \in StartCalls : Stopped(c) ~> Returned(c)

\* The same, for a service that is not started again after the stop().
C27_StoppedReturnsUnlessRestarted ==
  \A c \in StartCalls : (Stopped(c) /\ [](~loops.isRunning[c[1]])) ~> Returned(c)

\* stop() leaves a validation or execution in flight where it is: a call
\* that awaits a trade goes on to the rest of its cycle, whatever else happens.
C27_TradeNotInterrupted ==
  [][\A c \in StartCalls :
       (Entered(c) /\ loops.starts[c[1]][c[2]].at = "trade")
         => loops'.starts[c[1]][c[2]].at \in {"trade", "cycle"}]_vars

\* C28: the two quotes of a route the pairwise detectors return have the same
\* input token (path[0]) and the same input amount: a forward quote is not
\* paired with a reverse one.
C28_SameDirectionPaired ==
  (det.by \in {"batched", "handlers"} /\ det.found # None) =>
    LET found == Get(det.found)
    IN  /\ found.route[1].path[1] = found.route[2].path[1]
        /\ found.route[1].inputAmount = found.route[2].inputAmount

\* The quote of the k-th call of the batch, if the call succeeded and was
\* decoded to two amounts above 0: labelled with the venue of the call
\* (calls 2i-1 and 2i are venue i's) and its direction (forward for the odd
\* calls, reverse for the even ones).
QuoteOfCall(k) ==
  LET r == det.results[k]
  IN  IF r.success /\ Len(r.amounts) >= 2 /\ r.amounts[1] > 0 /\ r.amounts[2] > 0
        THEN << PriceQuote(MonitorDexes[(k + 1) \div 2].name, r.amounts[1], r.amounts[2],
                           IF k % 2 = 1 THEN <<"A", "B">> ELSE <<"B", "A">>) >>
        ELSE <<>>

RECURSIVE QuotesOfCalls(_)
QuotesOfCalls(k) ==
  IF k > Len(det.results) THEN <<>> ELSE QuoteOfCall(k) \o QuotesOfCalls(k + 1)

\* C29: whatever calls of the batch failed or could not be decoded, the
\* batched findArbitrage does not throw, and its list of valid quotes holds,
\* in the order of the calls, exactly the calls that succeeded with two
\* amounts above 0, each under the venue and the direction of its own call.
C29_BatchTolerant ==
  det.by = "batched" => (~det.threw /\ det.valid = QuotesOfCalls(1))

\* A batch with a failed call, an undecodable answer and a zero output among
\* answers that give quotes.
C29_Witness ==
  /\ det.by = "batched"
  /\ Len(det.results) = 4
  /\ ~det.results[1].success
  /\ det.results[3].success /\ det.results[3].amounts = <<>>
  /\ det.results[2].success
  /\ Len(det.valid) = 2

\* C30: the pool states one getPriceQuotes pass sizes and compares are all of
\* the same block.
C30_SameBlock ==
  PoolsFetched =>
    \A v \in PoolVenues, w \in PoolVenues :
      (pools.pass.info[v] # 0 /\ pools.pass.info[w] # 0)
        => pools.pass.info[v] = pools.pass.info[w]

\* What the cache does ensure: an entry is filed under a block no later than
\* the one its reserves are of.
C30_CacheNotAhead ==
  \A v \in PoolVenues :
    pools.poolCache[v] # None
      => Get(pools.poolCache[v]).blockNumber <= Get(pools.poolCache[v]).reservesOf

\* C31: getPoolInfoCached returns a cached entry only if the entry is filed
\* under the block number read in that call; an entry filed under an earlier
\* block is not returned, and null is never stored in the cache.
C31_CachedOnlyWithinBlock ==
  \A v \in PoolVenues :
    /\ pools.pass.hit[v] # None
         => /\ pools.pass.at[v] = "done"
            /\ Get(pools.pass.hit[v]) = pools.pass.currentBlock[v]
            /\ pools.pass.info[v] # 0
    /\ pools.poolCache[v] # None => Get(pools.poolCache[v]).reservesOf # 0
    /\ (pools.pass.at[v] = "done" /\ pools.pass.info[v] = 0 /\ pools.poolCache[v] # None)
         => Get(pools.poolCache[v]).blockNumber < pools.pass.currentBlock[v]

\* In one pass at a later block, venue 1 is answered from its entry of that
\* block, and venue 2, whose entry is of an earlier block, is fetched again,
\* the fetch fails, and the old entry is not returned.
C31_Witness ==
  /\ pools.pass.at[1] = "done" /\ pools.pass.hit[1] # None
  /\ pools.pass.currentBlock[1] >= 2
  /\ pools.pass.at[2] = "done" /\ pools.pass.hit[2] = None
  /\ pools.pass.info[2] = 0
  /\ pools.poolCache[2] # None
  /\ Get(pools.poolCache[2]).blockNumber < pools.pass.currentBlock[2]

\* C32: at no time are two executeTrade calls in progress against the
\* wallet: the steps of one opportunity's execution start only after the
\* executeTrade call of the previous one has returned.
C32_OneExecutionAtATime ==
  Cardinality({c \in StartCalls : CallAt(c, "trade")}) <= 1

\* What the awaits do ensure: a service that was started once has one
\* execution in progress at most.
C32_SerialWithinOneLoop ==
  Len(loops.starts["ArbitrageService"]) <= 1
    => Cardinality({c \in StartCalls : CallAt(c, "trade")}) <= 1

\* C33: the opportunities scanForArbitrage builds have legs whose age at
\* scan time is at most maxPriceAgeMs, and no opportunity is in execution
\* once it is older than maxPriceAgeMs.
C33_NeverExecutedStale ==
  /\ det.by = "scan" =>
       \A k \in 1..Len(det.opps) :
         Fresh(det.opps[k].buyQuote) /\ Fresh(det.opps[k].sellQuote)
  /\ \A c \in StartCalls :
       CallAt(c, "trade") => loops.starts[c[1]][c[2]].age <= maxPriceAgeMs

\* What the filter of the scan does ensure: every leg of every opportunity
\* it builds was at most maxPriceAgeMs old at the scan, and is one of the
\* stored prices.
C33_LegsFreshAtScan ==
  det.by = "scan" =>
    \A k \in 1..Len(det.opps) :
      /\ Fresh(det.opps[k].buyQuote) /\ Fresh(det.opps[k].sellQuote)
      /\ \E i \in 1..Len(det.quotes) : det.quotes[i] = det.opps[k].buyQuote
      /\ \E i \in 1..Len(det.quotes) : det.quotes[i] = det.opps[k].sellQuote

\* The keys the last getQuotes call was entitled to insert: those whose
\* probe found no code (probed, and no quoting call followed) and those a
\* "pool not found" error was raised for.
FoundMissing(last) == (last.probes \ last.quoted) \cup last.notFound

FailedAfterLeg1 ==
  /\ exit \in {"AllowanceFailed", "Leg2Failed"}
  /\ buyTx.success
  /\ ~result.success

\* C36: a failure result returned after leg 1 was confirmed carries leg 1's
\* transaction hash or its gas cost.
C36_FailureCarriesLeg1 ==
  FailedAfterLeg1 =>
    \/ result.transactionHash = buyTx.transactionHash
    \/ result.gasUsed # None
    \/ result.totalCost # None

\* What such a result does carry: the error text alone.
C36_FailureCarriesError ==
  FailedAfterLeg1 =>
    /\ result.error # None
    /\ result = TradeResult(FALSE, None, result.error, None, None, None, None)

\* The registered handlers that put dexName on their quotes.
ProducedBy(dexName) == { n \in getHandlers : dexName \in AdapterQuoteNames(n) }

\* The legs of the opportunity in hand.
Legs == IF opp = NoOpp THEN {} ELSE { opp.buyQuote, opp.sellQuote }

\* C38: for a quote of a registered handler, the key the validator derives
\* from it (dexName cut at the first space) retrieves that handler, and the
\* validation of an opportunity with legs of registered venues does not end in
\* 'Failed to get updated quotes' because a lookup found nothing.
C38_QuoteKeyFindsHandler ==
  /\ \A q \in Legs :
       ProducedBy(q.dexName) # {} => SplitFirst(q.dexName) \in ProducedBy(q.dexName)
  /\ (/\ \A q \in Legs : ProducedBy(q.dexName) # {}
      /\ validation = FailedQuotes)
       => \A q \in Legs : SplitFirst(q.dexName) \in getHandlers

\* What does hold: the key finds the handler of every venue whose configured
\* name has no space in it.
C38_OneWordNamesFound ==
  \A q \in Legs :
    \A n \in ProducedBy(q.dexName) : Len(n) = 1 => SplitFirst(q.dexName) = n

\* The refreshed quote the validator compares with a recorded leg, if any:
\* updatedBuyQuote[0], updatedSellQuote[0].
Compared == (IF updated.buy = <<>> THEN {} ELSE { <<opp.buyQuote, updated.buy[1]>> })
            \cup (IF updated.sell = <<>> THEN {} ELSE { <<opp.sellQuote, updated.sell[1]>> })

\* C39: the refreshed quote compared with a leg has the leg's venue identity
\* (name and fee tier) and the leg's path direction.
C39_RefreshedMatchesLeg ==
  \A c \in Compared : c[2].dexName = c[1].dexName /\ c[2].path = c[1].path

\* What the lookup does ensure: the refreshed quote is of the handler found
\* under the leg's first word, and of the opportunity's two tokens.
C39_SameHandlerAndTokens ==
  \A c \in Compared :
    /\ SplitFirst(c[2].dexName) = SplitFirst(c[1].dexName)
    /\ c[2].path \in { <<opp.tokenA, opp.tokenB>>, <<opp.tokenB, opp.tokenA>> }

\* C35: a cycle that throws at loop level does not end the loop: the loop
\* sleeps and runs its next cycle.
C35_LoopSurvivesThrow == loops.main.at # "exited"

\* The loops of the two services do so: a sleeping call waits the interval or,
\* after a throw, twice the interval, whatever its earlier cycles did, and a
\* call leaves its loop only by reading the flag after a sleep.
C35_ServicesBackOff ==
  /\ \A c \in StartCalls :
       CallAt(c, "sleep") =>
         loops.starts[c[1]][c[2]].wait
           \in {DefaultInterval(c[1]), 2 * DefaultInterval(c[1])}
  /\ loops.main.at = "sleep" => loops.main.wait = MainInterval

\* Call c runs cycles: it has entered its loop, has not returned, and is not
\* merely finishing the cycle and the sleep that stop() found it in.
Active(c) ==
  /\ Entered(c)
  /\ loops.starts[c[1]][c[2]].at # "returned"
  /\ ~loops.starts[c[1]][c[2]].stopped \/ loops.starts[c[1]][c[2]].late

\* C37: at most one loop of a service is active at any time, under every
\* interleaving of start and stop calls.
C37_AtMostOneLoop ==
  \A s \in LoopServices :
    Cardinality({c \in StartCalls : c[1] = s /\ Active(c)}) <= 1

\* What the flag does ensure: a start call on a running service enters no
\* loop, so two loops that were never stopped do not exist.
C37_OneUnstoppedLoop ==
  \A s \in LoopServices :
    Cardinality({c \in StartCalls : c[1] = s /\ Entered(c)
                                     /\ loops.starts[c[1]][c[2]].at # "returned"
                                     /\ ~loops.starts[c[1]][c[2]].stopped}) <= 1

\* C40: for each leg, the spender whose allowance ensureAllowance reads and
\* approves is the contract the leg's swap is submitted to (the venue's
\* router), and the token is the first token of the leg's swap path.
C40_SpenderIsRouter ==
  flow = "trade" =>
    \A l \in {1, 2} :
      \A i \in Events("allowance", l) \cup Events("approve", l) :
        \A j \in Events("swapSubmit", l) :
          /\ calls[i].target = calls[j].target
          /\ calls[i].token = calls[j].token

\* What ensureAllowance does ensure: the approval is granted to the spender
\* and for the token of the read before it, the spender being the first word
\* of the leg's venue name and the token tokenA for leg 1, tokenB for leg 2.
C40_ApprovesWhatItRead ==
  flow = "trade" =>
    \A l \in {1, 2} :
      /\ \A i \in Events("allowance", l) :
           /\ calls[i].target = SplitFirst(LegQuote(opp, l).dexName)
           /\ calls[i].token = LegToken(opp, l)
      /\ \A i \in Events("approve", l) :
           \E j \in Events("allowance", l) :
             j < i /\ calls[j].target = calls[i].target /\ calls[j].token = calls[i].token

====
